---- MODULE Spec2Model ----
(***************************************************************************)
(* Student Admissions Manager: the filter rules, the FilterManager, the    *)
(* merge of two tables and the tab orchestration of MainWindow.            *)
(*                                                                         *)
(* Indices: Python indexes tabs and rows from 0, the sequences below from  *)
(* 1.  "index == 0" of the source is "i = 1" here, "index > 0" is "i > 1". *)
(***************************************************************************)
EXTENDS Integers, Sequences, FiniteSets, TLC

(***************************************************************************)
(* Values, rows and tables                                                 *)
(***************************************************************************)

\* utils.DATE_COL_NAME, the load-timestamp column.
DATE_COL_NAME == "Date Added"

\* np.nan, the missing value a failed coercion stores; no table value below is negative.
NaN == -1

\* The set of elements of a sequence.
Range(s) == {s[i] : i \in 1..Len(s)}

\* A list comprehension [x for x in s if keep(x)], by the indices kept.
RECURSIVE SelectIdx(_, _, _)
SelectIdx(s, keep, i) ==
    IF i > Len(s) THEN <<>>
    ELSE IF i \in keep THEN <<s[i]>> \o SelectIdx(s, keep, i + 1)
    ELSE SelectIdx(s, keep, i + 1)

\* A pandas DataFrame: its columns and its rows (each row a function on the columns).
Table(cols, rows) == [cols |-> cols, rows |-> rows]

\* pd.DataFrame()
EmptyTable == Table({}, <<>>)

\* df.empty: no rows or no columns.
IsEmpty(df) == df.rows = <<>> \/ df.cols = {}

\* df[mask]: the rows whose mask entry is true, in order, with the same columns.
MaskRows(df, mask) ==
    Table(df.cols, SelectIdx(df.rows, {i \in 1..Len(df.rows) : mask[i]}, 1))

(***************************************************************************)
(* Filter rules (models.py)                                                *)
(***************************************************************************)

\* NumericFilter(column, operator, value)
NumericFilter(c, op, v) == [type |-> "numeric", column |-> c, operator |-> op, value |-> v]

OPERATORS == {">=", "<=", "==", ">", "<", "!="}

\* NumericFilter.matches: float(value), then the operator; NaN compares false
\* under every operator but "!=".
NumericMatches(rule, x) ==
    IF x = NaN THEN rule.operator = "!="
    ELSE CASE rule.operator = ">=" -> x >= rule.value
           [] rule.operator = "<=" -> x <= rule.value
           [] rule.operator = "==" -> x = rule.value
           [] rule.operator = ">"  -> x > rule.value
           [] rule.operator = "<"  -> x < rule.value
           [] rule.operator = "!=" -> x # rule.value
           [] OTHER -> FALSE

\* FilterRule.matches, dispatched on the variant.
Matches(rule, x) ==
    IF rule.type = "numeric" THEN NumericMatches(rule, x) ELSE FALSE

\* __eq__ of the rule classes: same variant, same column, same parameters;
\* the tokens of two TextFilters are compared as sets.
RuleEq(a, b) ==
    /\ a.type = b.type
    /\ a.column = b.column
    /\ CASE a.type = "numeric" -> a.operator = b.operator /\ a.value = b.value
         [] a.type = "text" ->
                /\ {a.tokens[i] : i \in 1..Len(a.tokens)} = {b.tokens[i] : i \in 1..Len(b.tokens)}
                /\ a.case_sensitive = b.case_sensitive
         [] a.type = "date" -> a.start_date = b.start_date /\ a.end_date = b.end_date
         [] OTHER -> FALSE

\* "rule in list", which Python decides with __eq__.
RuleIn(rule, list) == \E i \in 1..Len(list) : RuleEq(list[i], rule)

(***************************************************************************)
(* Strings, dates and the objects a cell can hold                          *)
(***************************************************************************)

\* A str is the sequence of its characters.  str.lower() on the letters used.
LowerChar(ch) == IF ch = "A" THEN "a" ELSE IF ch = "L" THEN "l" ELSE ch
lower(s) == [i \in 1..Len(s) |-> LowerChar(s[i])]

\* str.strip(): the blanks at both ends cut off.
RECURSIVE strip(_)
strip(s) ==
    IF s = <<>> THEN s
    ELSE IF Head(s) = " " THEN strip(Tail(s))
    ELSE IF s[Len(s)] = " " THEN strip(SubSeq(s, 1, Len(s) - 1))
    ELSE s

\* "needle in hay" of two strs.
IsSubstring(needle, hay) ==
    \E i \in 0..(Len(hay) - Len(needle)) : SubSeq(hay, i + 1, i + Len(needle)) = needle

\* The decimal digits, and str(n) of an int n >= 0.
Digits == <<"0", "1", "2", "3", "4", "5", "6", "7", "8", "9">>
RECURSIVE str_int(_)
str_int(n) == IF n < 10 THEN <<Digits[n + 1]>> ELSE str_int(n \div 10) \o <<Digits[(n % 10) + 1]>>

\* A str of digits only, and the int it denotes.
IsDigits(s) == s # <<>> /\ \A i \in 1..Len(s) : \E d \in 1..10 : Digits[d] = s[i]
DigitValue(ch) == (CHOOSE d \in 1..10 : Digits[d] = ch) - 1
RECURSIVE int_of(_)
int_of(s) == IF Len(s) = 1 THEN DigitValue(s[1])
             ELSE 10 * int_of(SubSeq(s, 1, Len(s) - 1)) + DigitValue(s[Len(s)])

\* n written with at least width digits, as the format %0<width>d does.
RECURSIVE ZeroPad(_, _)
ZeroPad(s, width) == IF Len(s) >= width THEN s ELSE ZeroPad(<<"0">> \o s, width)

\* datetime.date(year, month, day)
Date(y, m, d) == [year |-> y, month |-> m, day |-> d]

\* d1 < d2 of two dates.
DateLess(d1, d2) ==
    \/ d1.year < d2.year
    \/ d1.year = d2.year /\ d1.month < d2.month
    \/ d1.year = d2.year /\ d1.month = d2.month /\ d1.day < d2.day

\* date.isoformat(): YYYY-MM-DD
isoformat(d) ==
    ZeroPad(str_int(d.year), 4) \o <<"-">> \o ZeroPad(str_int(d.month), 2)
        \o <<"-">> \o ZeroPad(str_int(d.day), 2)

\* The strs date.fromisoformat and pd.to_datetime read as a date here.
IsIsoDate(s) ==
    /\ Len(s) = 10
    /\ s[5] = "-" /\ s[8] = "-"
    /\ IsDigits(SubSeq(s, 1, 4)) /\ IsDigits(SubSeq(s, 6, 7)) /\ IsDigits(SubSeq(s, 9, 10))

\* A fromisoformat that reads the day before the month.
FromDayFirst(s) == Date(int_of(SubSeq(s, 1, 4)), int_of(SubSeq(s, 9, 10)), int_of(SubSeq(s, 6, 7)))

\* datetime.date.fromisoformat
fromisoformat(s) == Date(int_of(SubSeq(s, 1, 4)), int_of(SubSeq(s, 6, 7)), int_of(SubSeq(s, 9, 10)))

\* The objects of a cell: an int or float, float nan, a str, None, a
\* Timestamp or date, and pd.NaT.
Num(n) == [kind |-> "num", n |-> n]
NanCell == [kind |-> "nan"]
Text(s) == [kind |-> "text", s |-> s]
NoneCell == [kind |-> "none"]
DateCell(d) == [kind |-> "date", date |-> d]
NaTCell == [kind |-> "nat"]

\* The object of a cell of the numeric tables above.
Cell(x) == IF x = NaN THEN NanCell ELSE Num(x)

\* str(value)
str(value) ==
    CASE value.kind = "num" -> str_int(value.n)
      [] value.kind = "text" -> value.s
      [] value.kind = "nan" -> <<"n", "a", "n">>
      [] value.kind = "none" -> <<"N", "o", "n", "e">>
      [] value.kind = "date" -> isoformat(value.date)
      [] value.kind = "nat" -> <<"N", "a", "T">>

\* float(value): a number and nan are themselves, a str of digits (blanks
\* around it allowed) is its number; any other str raises ValueError,
\* None and a date raise TypeError.
float(value) ==
    CASE value.kind = "num" -> [raised |-> FALSE, val |-> value.n]
      [] value.kind = "nan" -> [raised |-> FALSE, val |-> NaN]
      [] value.kind = "text" /\ IsDigits(strip(value.s)) ->
            [raised |-> FALSE, val |-> int_of(strip(value.s))]
      [] OTHER -> [raised |-> TRUE, val |-> NaN]

\* A matches for which an object that is no number differs from every number.
UncoercedDiffers(rule, value) ==
    IF float(value).raised THEN rule.operator = "!=" ELSE NumericMatches(rule, float(value).val)

\* NumericFilter.matches on any object: False when float(value) raises.
NumericFilter_matches(rule, value) ==
    IF float(value).raised THEN FALSE ELSE NumericMatches(rule, float(value).val)

\* The comprehensions of TextFilter.__init__: each token stripped, the
\* empty ones dropped, then all lowered unless case-sensitive.
RECURSIVE StripTokens(_)
StripTokens(tokens) ==
    IF tokens = <<>> THEN <<>>
    ELSE IF strip(Head(tokens)) = <<>> THEN StripTokens(Tail(tokens))
    ELSE <<strip(Head(tokens))>> \o StripTokens(Tail(tokens))

\* A TextFilter that keeps the tokens as they are given.
TextFilterAsGiven(c, tokens, case_sensitive) ==
    [type |-> "text", column |-> c, tokens |-> tokens, case_sensitive |-> case_sensitive]

\* TextFilter(column, tokens, case_sensitive)
TextFilter(c, tokens, case_sensitive) ==
    [type |-> "text", column |-> c,
     tokens |-> IF case_sensitive THEN StripTokens(tokens)
                ELSE [i \in 1..Len(StripTokens(tokens)) |-> lower(StripTokens(tokens)[i])],
     case_sensitive |-> case_sensitive]

\* TextFilter.matches
TextFilter_matches(rule, value) ==
    IF rule.tokens = <<>> THEN FALSE
    ELSE LET text == IF rule.case_sensitive THEN str(value) ELSE lower(str(value))
         IN \E k \in 1..Len(rule.tokens) : IsSubstring(rule.tokens[k], text)

\* An Optional[date]: None, or a date.
NoDate == [some |-> FALSE]
Some(d) == [some |-> TRUE, date |-> d]

\* DateFilter(column, start_date, end_date)
DateFilter(c, start_date, end_date) ==
    [type |-> "date", column |-> c, start_date |-> start_date, end_date |-> end_date]

\* The try block of DateFilter.matches: a Timestamp or date gives its date;
\* NaT is a datetime whose date() is NaT; of other objects pd.to_datetime
\* makes NaT of nan, a date of a str that reads as one, None of None
\* (whose .date() raises) and raises on any other str.  (Numbers are not
\* given to it here.)
date_val(value) ==
    CASE value.kind = "date" -> [raised |-> FALSE, nat |-> FALSE, date |-> value.date]
      [] value.kind \in {"nat", "nan"} -> [raised |-> FALSE, nat |-> TRUE]
      [] value.kind = "text" /\ IsIsoDate(strip(value.s)) ->
            [raised |-> FALSE, nat |-> FALSE, date |-> fromisoformat(strip(value.s))]
      [] OTHER -> [raised |-> TRUE, nat |-> FALSE]

\* DateFilter.matches, as the set of its possible outcomes: "True",
\* "False", or "TypeError" raised to the caller.  The two comparisons stand
\* after the try block; NaT compared with a date raises TypeError in the
\* pandas releases that refuse the comparison and is false in those that
\* allow it.
DateFilter_matches(rule, value) ==
    LET v == date_val(value) IN
    IF v.raised THEN {"False"}
    ELSE IF v.nat
    THEN IF rule.start_date.some \/ rule.end_date.some THEN {"TypeError", "True"} ELSE {"True"}
    ELSE IF rule.start_date.some /\ DateLess(v.date, rule.start_date.date) THEN {"False"}
    ELSE IF rule.end_date.some /\ DateLess(rule.end_date.date, v.date) THEN {"False"}
    ELSE {"True"}

\* The characters in the order of their code points, and s < t of two strs.
CodeOrder == <<" ", "-", "0", "1", "2", "3", "4", "5", "6", "7", "8", "9", "A", "L", "a", "b", "l">>
Ord(ch) == CHOOSE i \in 1..Len(CodeOrder) : CodeOrder[i] = ch
RECURSIVE StrLess(_, _)
StrLess(s, t) ==
    IF t = <<>> THEN FALSE
    ELSE IF s = <<>> THEN TRUE
    ELSE IF Ord(Head(s)) # Ord(Head(t)) THEN Ord(Head(s)) < Ord(Head(t))
    ELSE StrLess(Tail(s), Tail(t))

\* sorted(tokens)
RECURSIVE InsertSorted(_, _)
InsertSorted(sorted_list, x) ==
    IF sorted_list = <<>> THEN <<x>>
    ELSE IF StrLess(x, Head(sorted_list)) THEN <<x>> \o sorted_list
    ELSE <<Head(sorted_list)>> \o InsertSorted(Tail(sorted_list), x)
RECURSIVE sorted(_)
sorted(tokens) ==
    IF tokens = <<>> THEN <<>> ELSE InsertSorted(sorted(SubSeq(tokens, 1, Len(tokens) - 1)), tokens[Len(tokens)])

\* __hash__ of the rule classes, as the tuple that is hashed: two rules
\* have the same hash when these are equal.
rule_hash(rule) ==
    CASE rule.type = "numeric" ->
            [column |-> rule.column, operator |-> rule.operator, value |-> rule.value]
      [] rule.type = "text" ->
            [column |-> rule.column, tokens |-> sorted(rule.tokens),
             case_sensitive |-> rule.case_sensitive]
      [] rule.type = "date" ->
            [column |-> rule.column, start_date |-> rule.start_date, end_date |-> rule.end_date]

\* FilterRule.matches of the numeric and text rules, on any object.
rule_matches(rule, value) ==
    CASE rule.type = "numeric" -> NumericFilter_matches(rule, value)
      [] rule.type = "text" -> TextFilter_matches(rule, value)

(***************************************************************************)
(* FilterManager (models.py): self.filters, a dict from column to the list  *)
(* of its rules, kept here as the buckets in insertion order.               *)
(***************************************************************************)

HasBucket(filters, c) == \E i \in 1..Len(filters) : filters[i].column = c

BucketIdx(filters, c) == CHOOSE i \in 1..Len(filters) : filters[i].column = c

\* FilterManager.get_filters_for_column
get_filters_for_column(filters, c) ==
    IF HasBucket(filters, c) THEN filters[BucketIdx(filters, c)].rules ELSE <<>>

\* FilterManager.add_observer: a callback already registered is not
\* registered again.
add_observer(observers, callback) ==
    IF \E k \in 1..Len(observers) : observers[k] = callback THEN observers
    ELSE Append(observers, callback)

\* FilterManager.remove_observer
remove_observer(observers, callback) ==
    SelectSeq(observers, LAMBDA o : o # callback)

\* What a callback does when called: the one named "bad" raises.
ObserverRaises(callback) == callback = "bad"

\* A notification that ends at the first observer that raises.
NotifyUntilRaise(observers, event) ==
    LET stops == {k \in 1..Len(observers) : ObserverRaises(observers[k])}
        last == IF stops = {} THEN Len(observers)
                ELSE CHOOSE k \in stops : \A j \in stops : k <= j
    IN [k \in 1..last |-> [observer |-> observers[k], event |-> event,
                            raised |-> ObserverRaises(observers[k])]]

\* FilterManager.notify_observers: the calls it makes, in the order of the
\* list; an exception of an observer is caught and printed, and the loop
\* goes on.
notify_observers(observers, event) ==
    [k \in 1..Len(observers) |-> [observer |-> observers[k], event |-> event,
                                   raised |-> ObserverRaises(observers[k])]]

\* An add_filter that notifies whether or not it has stored the rule.
AddAlwaysNotifies(filters, rule) ==
    LET col == rule.column
        withBucket == IF HasBucket(filters, col) THEN filters
                      ELSE Append(filters, [column |-> col, rules |-> <<>>])
        i == BucketIdx(withBucket, col)
    IN IF ~RuleIn(rule, withBucket[i].rules)
       THEN [filters |-> [withBucket EXCEPT ![i].rules = Append(@, rule)], notified |-> TRUE]
       ELSE [filters |-> withBucket, notified |-> TRUE]

\* FilterManager.add_filter: the bucket is created when missing, the rule
\* appended unless an equal rule is in it.  The second component tells
\* whether observers are notified.
add_filter(filters, rule) ==
    LET col == rule.column
        withBucket == IF HasBucket(filters, col) THEN filters
                      ELSE Append(filters, [column |-> col, rules |-> <<>>])
        i == BucketIdx(withBucket, col)
    IN IF ~RuleIn(rule, withBucket[i].rules)
       THEN [filters |-> [withBucket EXCEPT ![i].rules = Append(@, rule)], notified |-> TRUE]
       ELSE [filters |-> withBucket, notified |-> FALSE]

\* list.remove: drops the first element equal to the rule.
RemoveFirst(list, rule) ==
    LET k == CHOOSE i \in 1..Len(list) :
                 RuleEq(list[i], rule) /\ \A j \in 1..(i - 1) : ~RuleEq(list[j], rule)
    IN SubSeq(list, 1, k - 1) \o SubSeq(list, k + 1, Len(list))

\* A remove_filter that leaves the bucket it has emptied in the dict.
RemoveKeepsBucket(filters, rule) ==
    LET col == rule.column IN
    IF HasBucket(filters, col) /\ RuleIn(rule, get_filters_for_column(filters, col))
    THEN LET i == BucketIdx(filters, col)
         IN [filters |-> [filters EXCEPT ![i].rules = RemoveFirst(filters[i].rules, rule)],
             notified |-> TRUE]
    ELSE [filters |-> filters, notified |-> FALSE]

\* FilterManager.remove_filter
remove_filter(filters, rule) ==
    LET col == rule.column IN
    IF HasBucket(filters, col) /\ RuleIn(rule, get_filters_for_column(filters, col))
    THEN LET i == BucketIdx(filters, col)
             left == RemoveFirst(filters[i].rules, rule)
         IN [filters |-> IF left = <<>>
                         THEN SubSeq(filters, 1, i - 1) \o SubSeq(filters, i + 1, Len(filters))
                         ELSE [filters EXCEPT ![i].rules = left],
             notified |-> TRUE]
    ELSE [filters |-> filters, notified |-> FALSE]

\* FilterManager.clear_column_filters
clear_column_filters(filters, c) ==
    IF HasBucket(filters, c)
    THEN LET i == BucketIdx(filters, c)
         IN [filters |-> SubSeq(filters, 1, i - 1) \o SubSeq(filters, i + 1, Len(filters)),
             notified |-> TRUE]
    ELSE [filters |-> filters, notified |-> FALSE]

\* FilterManager.clear_all: always notifies.
clear_all(filters) == [filters |-> <<>>, notified |-> TRUE]

\* FilterManager.has_filters
has_filters(filters) == Len(filters) > 0

\* FilterManager.get_all_filters: the lists of the buckets, one after the
\* other.
RECURSIVE get_all_filters(_)
get_all_filters(filters) ==
    IF filters = <<>> THEN <<>>
    ELSE Head(filters).rules \o get_all_filters(Tail(filters))

\* A loop over one bucket that is content with one rule that matches.
RECURSIVE AnyRuleMatches(_, _, _)
AnyRuleMatches(rules, value, k) ==
    IF k > Len(rules) THEN FALSE
    ELSE IF Matches(rules[k], value) THEN TRUE
    ELSE AnyRuleMatches(rules, value, k + 1)

\* The inner loop of matches_all_filters over one bucket: false at the
\* first rule that does not match.
RECURSIVE AllRulesMatch(_, _, _)
AllRulesMatch(rules, value, k) ==
    IF k > Len(rules) THEN TRUE
    ELSE IF ~Matches(rules[k], value) THEN FALSE
    ELSE AllRulesMatch(rules, value, k + 1)

\* The outer loop of matches_all_filters over the buckets.
RECURSIVE MatchesAllFrom(_, _, _)
MatchesAllFrom(filters, row, i) ==
    IF i > Len(filters) THEN TRUE
    ELSE IF filters[i].column \notin DOMAIN row THEN FALSE
    ELSE IF ~AllRulesMatch(filters[i].rules, row[filters[i].column], 1) THEN FALSE
    ELSE MatchesAllFrom(filters, row, i + 1)

\* FilterManager.matches_all_filters
matches_all_filters(filters, row) ==
    IF filters = <<>> THEN TRUE ELSE MatchesAllFrom(filters, row, 1)

\* A matches_any_filter that gives up at a column the row does not have.
RECURSIVE AnyFailsOnAbsent(_, _)
AnyFailsOnAbsent(filters, row) ==
    IF filters = <<>> THEN FALSE
    ELSE IF Head(filters).column \notin DOMAIN row THEN FALSE
    ELSE IF \E k \in 1..Len(Head(filters).rules) :
                Matches(Head(filters).rules[k], row[Head(filters).column])
    THEN TRUE
    ELSE AnyFailsOnAbsent(Tail(filters), row)

\* FilterManager.matches_any_filter: the loop continues past a column the
\* row does not have, and returns True at the first rule that matches.
RECURSIVE matches_any_filter(_, _)
matches_any_filter(filters, row) ==
    IF filters = <<>> THEN FALSE
    ELSE IF Head(filters).column \notin DOMAIN row THEN matches_any_filter(Tail(filters), row)
    ELSE IF \E k \in 1..Len(Head(filters).rules) :
                Matches(Head(filters).rules[k], row[Head(filters).column])
    THEN TRUE
    ELSE matches_any_filter(Tail(filters), row)

(***************************************************************************)
(* merge_dataframes (utils.py)                                             *)
(***************************************************************************)

\* The columns of a table other than the timestamp column.
BaseColumns(df) == df.cols \ {DATE_COL_NAME}

\* The message of a failed merge: "Column mismatch:", then the "Missing:"
\* line when there is a missing column, then the "Extra:" line likewise.
MismatchMessage(missing_in_new, extra_in_new) ==
    [head |-> "Column mismatch", missing |-> missing_in_new, extra |-> extra_in_new]

\* pd.concat pads a row with NaN in the columns it lacks.
PadRow(row, cols) == [c \in cols |-> IF c \in DOMAIN row THEN row[c] ELSE NaN]

\* drop_duplicates with keep="first": a row stays when no earlier row agrees
\* with it on the base columns.
DropDuplicatesKeepFirst(rows, base) ==
    SelectIdx(rows,
              {i \in 1..Len(rows) :
                   \A j \in 1..(i - 1) : \E c \in base : rows[j][c] # rows[i][c]},
              1)

\* drop_duplicates(subset=base, keep="last") then reset_index: a row stays
\* when no later row agrees with it on the base columns.
DropDuplicatesKeepLast(rows, base) ==
    SelectIdx(rows,
              {i \in 1..Len(rows) :
                   \A j \in (i + 1)..Len(rows) : \E c \in base : rows[j][c] # rows[i][c]},
              1)

\* A merge that concatenates the two tables and drops nothing.
ConcatOnly(existing_df, new_df) ==
    [df |-> Table(existing_df.cols, existing_df.rows \o new_df.rows),
     ok |-> BaseColumns(existing_df) = BaseColumns(new_df),
     msg |-> MismatchMessage({}, {})]

\* merge_dataframes(existing_df, new_df) -> (table, success, message)
merge_dataframes(existing_df, new_df) ==
    LET existing_base == BaseColumns(existing_df)
        new_base == BaseColumns(new_df)
    IN IF existing_base # new_base
       THEN [df |-> existing_df, ok |-> FALSE,
             msg |-> MismatchMessage(existing_base \ new_base, new_base \ existing_base)]
       ELSE LET cols == existing_df.cols \cup (existing_base \cup {DATE_COL_NAME})
                all == [i \in 1..Len(existing_df.rows) |-> PadRow(existing_df.rows[i], cols)]
                       \o [i \in 1..Len(new_df.rows) |-> PadRow(new_df.rows[i], cols)]
            IN [df |-> Table(cols, DropDuplicatesKeepLast(all, existing_base)),
                ok |-> TRUE,
                msg |-> [head |-> "Successfully merged", missing |-> {}, extra |-> {}]]

\* add_date_column: every row gets the load time in the timestamp column.
add_date_column(df, now) ==
    Table(df.cols \cup {DATE_COL_NAME},
          [i \in 1..Len(df.rows) |->
              [c \in df.cols \cup {DATE_COL_NAME} |->
                  IF c = DATE_COL_NAME THEN now ELSE df.rows[i][c]]])

(***************************************************************************)
(* DataFrameModel (models.py): _df and _highlight_mask.  The model's own    *)
(* FilterManager is kept for the base model only (model_fm below): the      *)
(* proxies of MainWindow all run in filter mode "all", where it is not read.*)
(***************************************************************************)

\* _highlight_mask = None
NoMask == [none |-> TRUE, bits |-> <<>>]

\* set_highlight_mask(np.asarray(mask, dtype=bool))
MaskOf(bits) == [none |-> FALSE, bits |-> bits]

\* DataFrameModel.is_row_highlighted: the mask where there is one, else the
\* model's own filter manager.
is_row_highlighted(data, mask, filters, row) ==
    IF (IsEmpty(data) \/ ~has_filters(filters)) /\ mask.none THEN FALSE
    ELSE IF ~mask.none /\ row <= Len(mask.bits) THEN mask.bits[row]
    ELSE matches_all_filters(filters, data.rows[row])

\* The text a QInputDialog can hand to setData, with the number pd.to_numeric reads from it.
NumericText == [t \in {"39", "10"} |-> IF t = "39" THEN 39 ELSE 10]

\* pd.to_numeric(value, errors="coerce"): the number, or NaN for text that is none.
to_numeric(text) == IF text \in DOMAIN NumericText THEN NumericText[text] ELSE NaN

\* DataFrameModel.setData on a numeric column: blank text is a missing
\* value, other text is coerced.
setData(df, row, col, text) ==
    LET new_value == IF text = "" THEN NaN ELSE to_numeric(text)
    IN Table(df.cols, [df.rows EXCEPT ![row] = [@ EXCEPT ![col] = new_value]])

(***************************************************************************)
(* Row masks of MainWindow (main_window.py)                                *)
(***************************************************************************)

\* applicable = the filters whose column the row has.
Applicable(row, filters) ==
    SelectIdx(filters, {i \in 1..Len(filters) : filters[i].column \in DOMAIN row}, 1)

\* The "any" loop of _row_matches_filters.
RECURSIVE AnyApplicableMatches(_, _, _)
AnyApplicableMatches(row, applicable, k) ==
    IF k > Len(applicable) THEN FALSE
    ELSE IF Matches(applicable[k], row[applicable[k].column]) THEN TRUE
    ELSE AnyApplicableMatches(row, applicable, k + 1)

\* An AND loop that returns at the first filter that matches.
AnyInsteadOfAll(row, applicable, k) == AnyApplicableMatches(row, applicable, k)

\* The default (AND) loop of _row_matches_filters.
RECURSIVE AllApplicableMatch(_, _, _)
AllApplicableMatch(row, applicable, k) ==
    IF k > Len(applicable) THEN TRUE
    ELSE IF ~Matches(applicable[k], row[applicable[k].column]) THEN FALSE
    ELSE AllApplicableMatch(row, applicable, k + 1)

\* MainWindow._row_matches_filters
row_matches_filters(row, filters, mode) ==
    IF filters = <<>> THEN FALSE
    ELSE LET applicable == Applicable(row, filters)
         IN IF applicable = <<>> THEN FALSE
            ELSE IF mode = "any" THEN AnyApplicableMatches(row, applicable, 1)
            ELSE AllApplicableMatch(row, applicable, 1)

\* MainWindow._build_mask_for_filters
build_mask_for_filters(df, filters, mode) ==
    IF IsEmpty(df) \/ filters = <<>>
    THEN [i \in 1..Len(df.rows) |-> FALSE]
    ELSE [i \in 1..Len(df.rows) |-> row_matches_filters(df.rows[i], filters, mode)]

\* np.logical_or of the rule masks, rule after rule.
RECURSIVE UnionMaskFrom(_, _, _, _)
UnionMaskFrom(df, rules, k, acc) ==
    IF k > Len(rules) THEN acc
    ELSE LET rule_mask == build_mask_for_filters(df, rules[k].filters, rules[k].mode)
         IN UnionMaskFrom(df, rules, k + 1,
                          [i \in 1..Len(df.rows) |-> acc[i] \/ rule_mask[i]])

(***************************************************************************)
(* The state of the application                                            *)
(***************************************************************************)

VARIABLES
    df,                 \* MainWindow.df
    model_df,           \* MainWindow.model._df, the table of the base tab
    model_mask,         \* MainWindow.model._highlight_mask
    model_fm,           \* MainWindow.model.filter_manager.filters
    tabs,               \* the tabs of tab_widget, in tab-bar order
    current,            \* tab_widget.currentIndex(), from 1
    show_matches,       \* MainWindow._filtered_tab_show_matches
    current_file_path,  \* MainWindow.current_file_path
    extra_models,       \* MainWindow._extra_models: the ids of the tabs of its models
    leaked,             \* and how many models of tabs that are gone it still holds
    pending_tabs,       \* MainWindow._pending_tabs
    state_file,         \* app_state.json
    last_file,          \* app_last_file.txt
    clock,              \* the wall clock add_date_column reads
    dialog,             \* the message box the last handler showed
    archive_written,    \* whether the last handler wrote a snapshot to archives/
    edits,              \* how many cells, tab names and tab positions the user has changed
    steps,              \* how many things the user has done in all
    fm_filters,         \* a FilterManager on its own: its filters
    fm_call,            \* the last call on it, with its argument and result
    fm_observers,       \* the callbacks registered with it, in order
    mg_existing,        \* merge_dataframes on its own: existing_df
    mg_new,             \* new_df
    mg_out,             \* the tuple returned
    mg_again,           \* the tables of a merge and of the same merge done again
    call,               \* a method of a proxy or of a rule called on its own: its arguments
    ret                 \* what the call returned

mwVars == <<df, model_df, model_mask, model_fm, tabs, current, show_matches,
            current_file_path, extra_models, leaked, pending_tabs, state_file,
            last_file, clock, dialog, archive_written, edits, steps>>
fmVars == <<fm_filters, fm_call, fm_observers>>
mgVars == <<mg_existing, mg_new, mg_out, mg_again>>
pfVars == <<call, ret>>
vars == <<mwVars, fmVars, mgVars, pfVars>>

\* The state of the window as one record, for the handlers below to thread through.
S0 == [df |-> df, model_df |-> model_df, model_mask |-> model_mask, model_fm |-> model_fm,
       tabs |-> tabs, current |-> current, show_matches |-> show_matches,
       current_file_path |-> current_file_path, extra_models |-> extra_models,
       leaked |-> leaked,
       pending_tabs |-> pending_tabs, state_file |-> state_file, last_file |-> last_file,
       clock |-> clock, dialog |-> dialog, archive_written |-> archive_written,
       edits |-> edits]

\* How long the user goes on.
MaxSteps == 5

\* The handler's result becomes the next state.  A widget's id only tells it
\* from the other widgets, so between handlers each tab is given its
\* position as id; a model _extra_models still holds of a tab that is gone
\* is counted in leaked.
Becomes(T) ==
    /\ steps < MaxSteps
    /\ steps' = steps + 1
    /\ df' = T.df
    /\ model_df' = T.model_df
    /\ model_mask' = T.model_mask
    /\ model_fm' = T.model_fm
    /\ tabs' = [i \in 1..Len(T.tabs) |-> [T.tabs[i] EXCEPT !.id = i]]
    /\ current' = T.current
    /\ show_matches' = T.show_matches
    /\ current_file_path' = T.current_file_path
    /\ extra_models' = {i \in 1..Len(T.tabs) : T.tabs[i].id \in T.extra_models}
    /\ leaked' = T.leaked
                  + Cardinality(T.extra_models \ {T.tabs[i].id : i \in 1..Len(T.tabs)})
    /\ pending_tabs' = T.pending_tabs
    /\ state_file' = T.state_file
    /\ last_file' = T.last_file
    /\ clock' = T.clock
    /\ dialog' = T.dialog
    /\ archive_written' = T.archive_written
    /\ edits' = T.edits

\* No path, no file, no message.
None == "None"

\* A tab name: the text, the number of " Copy" suffixes a duplicate adds, and
\* whether it ends in a parenthesised part, which _strip_tab_count cuts off.
TabName(stem) == [stem |-> stem, copies |-> 0, paren |-> FALSE]

\* MainWindow._strip_tab_count
strip_tab_count(name) == [name EXCEPT !.paren = FALSE]

\* A StyledTableView in the tab widget with its proxy and source model:
\* tab_kind, tab_filters, tab_filter_mode, file_path, the tab text, whether
\* the tab is shown, the proxy's extra filters and mode, the source model's
\* table and highlight mask (of the base tab these two are model_df and
\* model_mask).
NewTab(id, kind, name, filters, mode, data, path) ==
    [id |-> id, kind |-> kind, name |-> name, filters |-> filters, mode |-> mode,
     visible |-> TRUE, data |-> data, hmask |-> NoMask, path |-> path,
     extra |-> <<>>, extraMode |-> "all"]

\* A widget not yet in the tab widget is told from the others by a fresh id.
FreshId(S) ==
    CHOOSE n \in 1..(Len(S.tabs) + 1) :
        /\ \A i \in 1..Len(S.tabs) : S.tabs[i].id # n
        /\ \A m \in 1..(n - 1) : \E i \in 1..Len(S.tabs) : S.tabs[i].id = m

\* tab_widget.indexOf(widget), 0 when the widget is not a tab.
indexOf(S, id) ==
    IF \E i \in 1..Len(S.tabs) : S.tabs[i].id = id
    THEN CHOOSE i \in 1..Len(S.tabs) : S.tabs[i].id = id
    ELSE 0

\* _get_current_tab_widget, by id; 0 when there is none.
CurrentId(S) == IF S.current \in 1..Len(S.tabs) THEN S.tabs[S.current].id ELSE 0

\* QTabBar.insertTab at position i: a tab at or after i moves right, and the
\* current index with it.
insertTab(S, i, tab) ==
    [S EXCEPT !.tabs = SubSeq(S.tabs, 1, i - 1) \o <<tab>> \o SubSeq(S.tabs, i, Len(S.tabs)),
              !.current = IF Len(S.tabs) = 0 THEN 1
                          ELSE IF i <= S.current THEN S.current + 1 ELSE S.current]

\* QTabBar.removeTab: with the current tab removed, the tab to its right
\* becomes current (the new last one when it was the last).
removeTab(S, i) ==
    LET left == SubSeq(S.tabs, 1, i - 1) \o SubSeq(S.tabs, i + 1, Len(S.tabs))
    IN [S EXCEPT !.tabs = left,
                 !.current = IF i < S.current THEN S.current - 1
                             ELSE IF i = S.current /\ i > Len(left) THEN Len(left)
                             ELSE S.current]

\* QTabBar's choice of a new current tab when the current one is hidden:
\* the first shown tab after it, else the last shown tab before it, else none (0).
selectNewCurrentIndexFrom(S, from) ==
    LET after == {i \in from..Len(S.tabs) : S.tabs[i].visible}
        before == {i \in 1..(from - 1) : S.tabs[i].visible}
    IN IF after # {} THEN CHOOSE i \in after : \A j \in after : i <= j
       ELSE IF before # {} THEN CHOOSE i \in before : \A j \in before : i >= j
       ELSE 0

\* MainWindow._set_tab_visible(index, False): the tab bar moves the current
\* index off a tab it hides.
hideTab(S, i) ==
    LET next == selectNewCurrentIndexFrom([S EXCEPT !.tabs[i].visible = FALSE], i + 1)
    IN [S EXCEPT !.tabs[i].visible = FALSE,
                 !.current = IF S.current = i /\ next # 0 THEN next ELSE @]

\* tab_widget.setCurrentIndex of the position of a widget
setCurrentWidget(S, id) == [S EXCEPT !.current = indexOf(S, id)]

\* MainWindow._hide_rule_tab
hide_rule_tab(S, id) ==
    LET index == indexOf(S, id) IN
    IF index = 0 THEN S
    ELSE [hideTab(S, index) EXCEPT !.current = IF @ = index THEN 1 ELSE @]

\* MainWindow._show_rule_tab
show_rule_tab(S, id) ==
    LET index == indexOf(S, id) IN
    IF index = 0 THEN S
    ELSE [S EXCEPT !.tabs[index].visible = TRUE, !.current = index]

\* MainWindow._ensure_tab_filter_state
ensure_tab_filter_state(S, id) ==
    LET index == indexOf(S, id) IN
    IF index = 0 THEN [filters |-> <<>>, mode |-> "all"]
    ELSE [filters |-> S.tabs[index].filters, mode |-> S.tabs[index].mode]

\* MainWindow._iter_rule_tabs: the positions of the rule tabs, in tab order.
iter_rule_tabs(S) == SelectIdx([i \in 1..Len(S.tabs) |-> i],
                               {i \in 1..Len(S.tabs) : S.tabs[i].kind = "rule"}, 1)

\* MainWindow._get_rule_definitions: (filters, mode) of every rule tab that
\* has filters, shown or hidden.
get_rule_definitions(S) ==
    LET defs == [i \in 1..Len(S.tabs) |-> [filters |-> S.tabs[i].filters, mode |-> S.tabs[i].mode]]
    IN SelectIdx(defs, {i \in 1..Len(S.tabs) :
                            S.tabs[i].kind = "rule" /\ S.tabs[i].filters # <<>>}, 1)

\* MainWindow._find_rule_tab_for_filter: the id of the first rule tab that
\* holds an equal rule, 0 when there is none.
find_rule_tab_for_filter(S, rule) ==
    LET owners == {i \in 1..Len(S.tabs) :
                       S.tabs[i].kind = "rule" /\ RuleIn(rule, S.tabs[i].filters)}
    IN IF owners = {} THEN 0
       ELSE S.tabs[CHOOSE i \in owners : \A j \in owners : i <= j].id

\* MainWindow._build_union_rule_mask
build_union_rule_mask(S, data) ==
    IF IsEmpty(data) THEN <<>>
    ELSE UnionMaskFrom(data, get_rule_definitions(S), 1, [i \in 1..Len(data.rows) |-> FALSE])

\* MainWindow._ensure_filtered_tab
ensure_filtered_tab(S) ==
    IF \E i \in 1..Len(S.tabs) : S.tabs[i].kind = "filtered" THEN S
    ELSE insertTab(S, IF Len(S.tabs) > 1 THEN 2 ELSE Len(S.tabs) + 1,
                   NewTab(FreshId(S), "filtered", TabName("Filtered"), <<>>, "all",
                          EmptyTable, None))

\* The id of the Filtered tab _ensure_filtered_tab returns.
FilteredId(S) == S.tabs[CHOOSE i \in 1..Len(S.tabs) : S.tabs[i].kind = "filtered"].id

\* MainWindow._set_proxy_source_dataframe followed by proxy.setExtraFilters([])
\* on the tab of a snapshot.
SetSnapshot(S, id, snapshot) ==
    LET index == indexOf(S, id) IN
    [S EXCEPT !.tabs[index].data = snapshot,
              !.tabs[index].hmask = NoMask,
              !.tabs[index].extra = <<>>]

\* A snapshot that always takes the matching rows.
SnapshotMatching(S, union_mask) ==
    SetSnapshot(S, FilteredId(S),
                IF IsEmpty(S.model_df) THEN S.model_df
                ELSE IF Len(union_mask) # Len(S.model_df.rows) THEN Table(S.model_df.cols, <<>>)
                ELSE MaskRows(S.model_df, union_mask))

\* MainWindow._rebuild_filtered_tab from the second line on: the snapshot of
\* the rows to show, set on the Filtered tab.
SnapshotFiltered(S, union_mask) ==
    LET data == S.model_df
        target_mask == IF S.show_matches THEN union_mask
                       ELSE [i \in 1..Len(union_mask) |-> ~union_mask[i]]
        snapshot_df ==
            IF IsEmpty(data) THEN data
            ELSE IF Len(union_mask) # Len(data.rows) THEN Table(data.cols, <<>>)
            ELSE MaskRows(data, target_mask)
    IN SetSnapshot(S, FilteredId(S), snapshot_df)

\* MainWindow._rebuild_filtered_tab
rebuild_filtered_tab(S, union_mask) == SnapshotFiltered(ensure_filtered_tab(S), union_mask)

RECURSIVE AddAll(_, _, _)
\* The loop of _refresh_rule_state that adds every rule of every definition
\* to the filter manager of the base model.
AddAll(filters, rules, k) ==
    IF k > Len(rules) THEN filters
    ELSE AddAll(add_filter(filters, rules[k]).filters, rules, k + 1)

RECURSIVE Flatten(_, _)
\* The rules of the definitions from the k-th on, in order.
Flatten(defs, k) == IF k > Len(defs) THEN <<>> ELSE defs[k].filters \o Flatten(defs, k + 1)

\* MainWindow._refresh_rule_state
refresh_rule_state(S) ==
    rebuild_filtered_tab(
        IF IsEmpty(S.model_df)
        THEN [S EXCEPT !.model_mask = NoMask, !.model_fm = clear_all(S.model_fm).filters]
        ELSE [S EXCEPT !.model_mask = MaskOf(build_union_rule_mask(S, S.model_df)),
                       !.model_fm = AddAll(clear_all(S.model_fm).filters,
                                           Flatten(get_rule_definitions(S), 1), 1)],
        build_union_rule_mask(S, S.model_df))

\* base_df[mask].copy() if not base_df.empty else base_df.copy(), with the
\* mask of the rules: the rows a rule tab is given.
RuleSnapshot(base_df, filters, mode) ==
    IF ~IsEmpty(base_df) THEN MaskRows(base_df, build_mask_for_filters(base_df, filters, mode))
    ELSE base_df

\* MainWindow._rebuild_rule_tab
rebuild_rule_tab(S, id) ==
    IF indexOf(S, id) = 0 THEN S
    ELSE LET st == ensure_tab_filter_state(S, id)
         IN SetSnapshot(S, id, RuleSnapshot(S.model_df, st.filters, st.mode))

RECURSIVE RebuildEach(_, _, _)
\* The loop of _rebuild_all_rule_tabs.
RebuildEach(S, positions, k) ==
    IF k > Len(positions) THEN S
    ELSE RebuildEach(rebuild_rule_tab(S, S.tabs[positions[k]].id), positions, k + 1)

\* MainWindow._rebuild_all_rule_tabs
rebuild_all_rule_tabs(S) == RebuildEach(S, iter_rule_tabs(S), 1)

\* MainWindow._apply_tab_highlights
apply_tab_highlights(S, id) ==
    LET index == indexOf(S, id) IN
    IF index = 0 \/ S.tabs[index].kind \notin {"custom", "file"} THEN S
    ELSE LET tab == S.tabs[index]
             applicable == SelectIdx(tab.filters,
                                     {k \in 1..Len(tab.filters) : tab.filters[k].column \in tab.data.cols}, 1)
         IN IF IsEmpty(tab.data) \/ tab.filters = <<>> \/ applicable = <<>>
            THEN [S EXCEPT !.tabs[index].hmask = NoMask]
            ELSE [S EXCEPT !.tabs[index].hmask =
                               MaskOf(build_mask_for_filters(tab.data, applicable, tab.mode))]

\* MainWindow._apply_tab_filters
apply_tab_filters(S, id) ==
    LET index == indexOf(S, id) IN
    IF index = 0 THEN S
    ELSE LET tab == S.tabs[index]
             T == [S EXCEPT !.tabs[index].extra = tab.filters,
                            !.tabs[index].extraMode = tab.mode]
         IN CASE tab.kind = "base" -> IF tab.filters # <<>> THEN refresh_rule_state(T) ELSE T
              [] tab.kind \in {"rule", "filtered"} -> S
              [] OTHER -> apply_tab_highlights(T, id)

\* A SmartSearchProxy: what its setters have stored.
Proxy(search_text, search_column, filter_mode, extra_filters, extra_filter_mode) ==
    [search_text |-> search_text, search_column |-> search_column, filter_mode |-> filter_mode,
     extra_filters |-> extra_filters, extra_filter_mode |-> extra_filter_mode]

\* The source model as the proxy reads it: the columns, the objects of the
\* rows, filter_manager.has_filters() and is_row_highlighted of each row.
ProxyModel(cols, rows, filters_active, highlighted) ==
    [cols |-> cols, rows |-> rows, has_filters |-> filters_active, highlighted |-> highlighted]

\* DataFrameModel.data for the DisplayRole: nothing for a missing value,
\* str(value) otherwise.
display(value) == IF value.kind \in {"nan", "none", "nat"} THEN <<>> ELSE str(value)

\* SmartSearchProxy._get_column_index finds the column: the header is the
\* column's name once its "[F] " mark is taken off.
has_column_index(model, column_name) == column_name \in model.cols

\* value and self.search_text.lower() in str(value).lower()
CellHasText(value, search_text) ==
    display(value) # <<>> /\ IsSubstring(lower(search_text), lower(display(value)))

\* 1) SEARCH FILTER of filterAcceptsRow
search_accepts(proxy, model, source_row) ==
    IF proxy.search_text = <<>> THEN TRUE
    ELSE IF proxy.search_column = None
    THEN \E col \in model.cols : CellHasText(model.rows[source_row][col], proxy.search_text)
    ELSE IF has_column_index(model, proxy.search_column)
    THEN CellHasText(model.rows[source_row][proxy.search_column], proxy.search_text)
    ELSE FALSE

\* A gate that does not ask whether the model has filters.
GateWithoutFilters(proxy, model, source_row) ==
    IF proxy.filter_mode # "all"
    THEN /\ proxy.filter_mode = "highlighted" => model.highlighted[source_row]
         /\ proxy.filter_mode = "unhighlighted" => ~model.highlighted[source_row]
    ELSE TRUE

\* 2) HIGHLIGHT FILTER of filterAcceptsRow
highlight_accepts(proxy, model, source_row) ==
    IF proxy.filter_mode # "all" /\ model.has_filters
    THEN /\ proxy.filter_mode = "highlighted" => model.highlighted[source_row]
         /\ proxy.filter_mode = "unhighlighted" => ~model.highlighted[source_row]
    ELSE TRUE

\* Extra filters that pass over a rule on an absent column in both modes.
SkipAbsentAlways(proxy, model, source_row) ==
    IF proxy.extra_filters = <<>> THEN TRUE
    ELSE IF proxy.extra_filter_mode = "any"
    THEN \E k \in 1..Len(proxy.extra_filters) :
            /\ has_column_index(model, proxy.extra_filters[k].column)
            /\ rule_matches(proxy.extra_filters[k],
                            model.rows[source_row][proxy.extra_filters[k].column])
    ELSE \A k \in 1..Len(proxy.extra_filters) :
            has_column_index(model, proxy.extra_filters[k].column)
                => rule_matches(proxy.extra_filters[k],
                                model.rows[source_row][proxy.extra_filters[k].column])

\* 3) EXTRA PER-TAB FILTERS of filterAcceptsRow, on the raw values: the
\* "any" loop continues past a rule whose column is not found, the other
\* loop returns False at it.
extra_accepts(proxy, model, source_row) ==
    IF proxy.extra_filters = <<>> THEN TRUE
    ELSE IF proxy.extra_filter_mode = "any"
    THEN \E k \in 1..Len(proxy.extra_filters) :
            /\ has_column_index(model, proxy.extra_filters[k].column)
            /\ rule_matches(proxy.extra_filters[k],
                            model.rows[source_row][proxy.extra_filters[k].column])
    ELSE \A k \in 1..Len(proxy.extra_filters) :
            /\ has_column_index(model, proxy.extra_filters[k].column)
            /\ rule_matches(proxy.extra_filters[k],
                            model.rows[source_row][proxy.extra_filters[k].column])

\* SmartSearchProxy.filterAcceptsRow: False at the first of the three
\* steps that rejects the row.
filterAcceptsRow(proxy, model, source_row) ==
    IF ~search_accepts(proxy, model, source_row) THEN FALSE
    ELSE IF ~highlight_accepts(proxy, model, source_row) THEN FALSE
    ELSE IF ~extra_accepts(proxy, model, source_row) THEN FALSE
    ELSE TRUE

\* The source model's table of the tab at position i.
SourceDf(S, i) == IF S.tabs[i].kind = "base" THEN S.model_df ELSE S.tabs[i].data

\* The objects of the rows of a table of numbers.
ObjectRows(data) ==
    [r \in 1..Len(data.rows) |-> [c \in data.cols |-> Cell(data.rows[r][c])]]

\* The source model of the tab at position i as its proxy reads it: the
\* base model with its FilterManager and mask, the model of another tab
\* with the mask _apply_tab_highlights gave it together with its filters.
SourceModel(S, i) ==
    LET data == SourceDf(S, i) IN
    IF S.tabs[i].kind = "base"
    THEN ProxyModel(data.cols, ObjectRows(data), has_filters(S.model_fm),
                    [r \in 1..Len(data.rows) |->
                        is_row_highlighted(data, S.model_mask, S.model_fm, r)])
    ELSE ProxyModel(data.cols, ObjectRows(data), ~S.tabs[i].hmask.none,
                    [r \in 1..Len(data.rows) |->
                        ~S.tabs[i].hmask.none /\ S.tabs[i].hmask.bits[r]])

\* The proxy of the tab at position i: nothing typed in the search box, the
\* filter mode "all" _create_*_tab sets, the extra filters of the tab.
TabProxy(S, i) == Proxy(<<>>, None, "all", S.tabs[i].extra, S.tabs[i].extraMode)

\* The source rows the proxy of the tab at position i shows.
VisibleRows(S, i) ==
    {r \in 1..Len(SourceDf(S, i).rows) : filterAcceptsRow(TabProxy(S, i), SourceModel(S, i), r)}

\* MainWindow._dataframe_for_proxy
dataframe_for_proxy(S, i) ==
    LET data == SourceDf(S, i)
    IN Table(data.cols, SelectIdx(data.rows, VisibleRows(S, i), 1))

\* self.start_date.isoformat() if self.start_date else None
IsoOrNone(d) == IF d.some THEN [some |-> TRUE, iso |-> isoformat(d.date)] ELSE [some |-> FALSE]

\* datetime.date.fromisoformat(data[...]) if data.get(...) else None
DateOrNone(x) == IF x.some THEN Some(fromisoformat(x.iso)) ELSE NoDate

\* to_dict of the three rule classes.
to_dict(rule) ==
    CASE rule.type = "numeric" ->
            [type |-> "numeric", column |-> rule.column, operator |-> rule.operator,
             value |-> rule.value]
      [] rule.type = "text" ->
            [type |-> "text", column |-> rule.column, tokens |-> rule.tokens,
             case_sensitive |-> rule.case_sensitive]
      [] rule.type = "date" ->
            [type |-> "date", column |-> rule.column,
             start_date |-> IsoOrNone(rule.start_date), end_date |-> IsoOrNone(rule.end_date)]

\* MainWindow._filter_from_dict, with from_dict of the three rule classes.
filter_from_dict(d) ==
    CASE d.type = "numeric" -> NumericFilter(d.column, d.operator, d.value)
      [] d.type = "text" -> TextFilter(d.column, d.tokens, d.case_sensitive)
      [] d.type = "date" -> DateFilter(d.column, DateOrNone(d.start_date), DateOrNone(d.end_date))

\* MainWindow._save_state
save_state(S) ==
    LET entry(i) ==
            LET tab == S.tabs[i] IN
            [name |-> strip_tab_count(tab.name),
             filters |-> [k \in 1..Len(tab.filters) |-> to_dict(tab.filters[k])],
             filter_mode |-> tab.mode,
             type |-> IF i = 1 THEN "base"
                      ELSE IF tab.kind = "rule" THEN "rule"
                      ELSE IF tab.kind = "file" /\ tab.path # None THEN "file"
                      ELSE "custom",
             file_path |-> IF i # 1 /\ tab.kind = "file" /\ tab.path # None THEN tab.path ELSE None]
    IN [S EXCEPT !.state_file =
            [exists |-> TRUE,
             last_file |-> S.current_file_path,
             filtered_tab_mode |-> IF S.show_matches THEN "matched" ELSE "unmatched",
             tabs |-> SelectIdx([i \in 1..Len(S.tabs) |-> entry(i)],
                                {i \in 1..Len(S.tabs) : S.tabs[i].kind # "filtered"}, 1)]]

\* DynamicTabWidget._generate_tab_name
generate_tab_name(rule) ==
    TabName(rule.column \o " " \o rule.operator \o " " \o ToString(rule.value))

\* QTabWidget.addTab, or insertTab when the caller gives a position
\* (0 stands for None) that is within the tab bar.
AddOrInsert(S, pos, tab) ==
    IF pos # 0 /\ pos <= Len(S.tabs) + 1 THEN insertTab(S, pos, tab)
    ELSE insertTab(S, Len(S.tabs) + 1, tab)

\* if switch_to: setCurrentIndex and _show_rule_tab, else: _hide_rule_tab,
\* of _create_filter_tab.
ShowOrHide(switch_to, S, id) ==
    IF switch_to THEN show_rule_tab(setCurrentWidget(S, id), id)
    ELSE hide_rule_tab(S, id)

\* if refresh_rules: self._refresh_rule_state()
RefreshIf(refresh_rules, S) == IF refresh_rules THEN refresh_rule_state(S) ELSE S

\* if save_state: self._save_state()
SaveIf(do_save, S) == IF do_save THEN save_state(S) ELSE S

\* MainWindow._create_filter_tab with DynamicTabWidget.add_filter_tab
create_filter_tab(S, filter_rules, insert_index, tab_name, filter_mode, switch_to, do_save, refresh_rules) ==
    IF filter_rules = <<>> THEN S
    ELSE SaveIf(do_save,
             RefreshIf(refresh_rules,
                 ShowOrHide(switch_to,
                     AddOrInsert(S, insert_index,
                         NewTab(FreshId(S), "rule",
                                IF tab_name = TabName(None) THEN generate_tab_name(filter_rules[1])
                                ELSE tab_name,
                                filter_rules, filter_mode,
                                RuleSnapshot(S.model_df, filter_rules, filter_mode), None)),
                     FreshId(S))))

\* MainWindow._create_custom_tab: a snapshot of what the source tab shows
\* (position 0: of the current tab).
create_custom_tab(S, name, insert_index, source) ==
    LET from == IF source # 0 THEN source ELSE S.current
        snapshot_df == IF from \in 1..Len(S.tabs) THEN dataframe_for_proxy(S, from)
                       ELSE S.model_df
        id == FreshId(S)
        tab == NewTab(id, "custom", name, <<>>, "all", snapshot_df, None)
    IN AddOrInsert([S EXCEPT !.extra_models = @ \cup {id}], insert_index, tab)

\* MainWindow._create_file_tab
create_file_tab(S, data, filepath, tab_name, insert_index) ==
    IF IsEmpty(data) THEN S
    ELSE LET id == FreshId(S)
             tab == NewTab(id, "file", tab_name, <<>>, "all", data, filepath)
         IN AddOrInsert([S EXCEPT !.extra_models = @ \cup {id}], insert_index, tab)

\* The tab's filters replaced, where the tab still exists.
SetFilters(S, id, filters) ==
    LET index == indexOf(S, id) IN
    IF index = 0 THEN S ELSE [S EXCEPT !.tabs[index].filters = filters]

\* MainWindow._add_filter_to_tab
add_filter_to_tab(S, id, rule) ==
    LET index == indexOf(S, id) IN
    IF index = 0 \/ RuleIn(rule, S.tabs[index].filters) THEN S
    ELSE save_state(
             IF S.tabs[index].kind = "rule"
             THEN refresh_rule_state(
                      rebuild_rule_tab(SetFilters(S, id, Append(S.tabs[index].filters, rule)), id))
             ELSE apply_tab_filters(SetFilters(S, id, Append(S.tabs[index].filters, rule)), id))

\* The rules of the list that differ from the given one.
Without(list, rule) == SelectIdx(list, {k \in 1..Len(list) : ~RuleEq(list[k], rule)}, 1)

\* What _remove_filter_from_tab and _clear_filters_for_tab do with a rule
\* tab left without filters: the tab goes, unless it is the first one.
DropRuleTab(S, id) ==
    LET index == indexOf(S, id)
    IN save_state(refresh_rule_state(IF index > 1 THEN removeTab(S, index) ELSE S))

\* MainWindow._remove_filter_from_tab
remove_filter_from_tab(S, id, rule) ==
    LET index == indexOf(S, id) IN
    IF index = 0 THEN S
    ELSE LET new_filters == Without(S.tabs[index].filters, rule)
             S1 == SetFilters(S, id, new_filters)
         IN IF S.tabs[index].kind = "rule"
            THEN IF new_filters = <<>> THEN DropRuleTab(S1, id)
                 ELSE save_state(refresh_rule_state(rebuild_rule_tab(S1, id)))
            ELSE save_state(apply_tab_filters(S1, id))

\* MainWindow._clear_filters_for_tab
clear_filters_for_tab(S, id) ==
    LET index == indexOf(S, id) IN
    IF index = 0 THEN S
    ELSE LET S1 == SetFilters(S, id, <<>>)
         IN IF S.tabs[index].kind = "rule" THEN DropRuleTab(S1, id)
            ELSE save_state(apply_tab_filters(S1, id))

\* MainWindow._set_tab_filter_mode
set_tab_filter_mode(S, id, mode) ==
    LET index == indexOf(S, id) IN
    IF index = 0 THEN S
    ELSE LET S1 == [S EXCEPT !.tabs[index].mode = IF mode \in {"all", "any"} THEN mode ELSE "all"]
         IN IF S.tabs[index].kind = "rule"
            THEN save_state(refresh_rule_state(rebuild_rule_tab(S1, id)))
            ELSE save_state(apply_tab_filters(S1, id))

RECURSIVE RemoveEach(_, _, _, _)
\* The loops of _on_clear_filters_for_column: the matching rules of one tab
\* removed one by one.
RemoveEach(S, id, matching, k) ==
    IF k > Len(matching) THEN S
    ELSE RemoveEach(remove_filter_from_tab(S, id, matching[k]), id, matching, k + 1)

RECURSIVE AddEach(_, _, _, _)
\* The loop of on_preset_selected: the rules of the preset added one by one.
AddEach(S, id, rules, k) ==
    IF k > Len(rules) THEN S
    ELSE AddEach(add_filter_to_tab(S, id, rules[k]), id, rules, k + 1)

\* The data files on disk, by path, as load_dataframe_from_file reads them:
\* GPA in tenths.
Files ==
    [p \in {"a.csv", "b.csv", "c.csv"} |->
        CASE p = "a.csv" -> Table({"GPA", "Sch"}, <<[GPA |-> 36, Sch |-> 0], [GPA |-> 20, Sch |-> 500]>>)
          [] p = "b.csv" -> Table({"GPA", "Sch"}, <<[GPA |-> 20, Sch |-> 500], [GPA |-> 36, Sch |-> 500]>>)
          [] p = "c.csv" -> Table({"GPA"}, <<[GPA |-> 36]>>)]

\* The paths the file dialog can return: the files above, a file that is
\* not there, and one with an extension load_dataframe_from_file does not
\* read.
Paths == DOMAIN Files \cup {"gone.csv", "notes.txt"}

\* utils.load_dataframe_from_file raises: no such file, an unsupported
\* extension, or a file that does not parse.
Raises(filepath) == filepath \notin DOMAIN Files

\* utils.load_dataframe_from_file where it returns
load_dataframe_from_file(filepath) == Files[filepath]

\* MainWindow._model_has_column on the base model
model_has_column(data, column) == column \in data.cols

\* The rules of the list whose column the table has.
WithColumn(data, filters) ==
    SelectIdx(filters, {k \in 1..Len(filters) : model_has_column(data, filters[k].column)}, 1)

\* MainWindow._create_file_tab_from_path
create_file_tab_from_path(S, filepath, tab_name, insert_index) ==
    IF filepath \notin DOMAIN Files THEN S
    ELSE create_file_tab(S, add_date_column(load_dataframe_from_file(filepath), S.clock),
                         filepath, tab_name, insert_index)

\* widget.tab_filters = ..., widget.tab_filter_mode = ... and
\* _apply_tab_filters(widget) of _restore_tabs_from_state, where the
\* condition of the entry's type holds.
RestoreFilters(S, id, filters, filter_mode, wanted) ==
    LET index == indexOf(S, id) IN
    IF index # 0 /\ wanted
    THEN apply_tab_filters([S EXCEPT !.tabs[index].filters = filters,
                                     !.tabs[index].mode = filter_mode], id)
    ELSE S

\* The same for a file tab: the rules on columns of the tab's own table.
RestoreFileFilters(S, id, filters, filter_mode) ==
    LET index == indexOf(S, id) IN
    IF index # 0 /\ filters # <<>>
    THEN RestoreFilters(S, id, WithColumn(S.tabs[index].data, filters), filter_mode, TRUE)
    ELSE S

\* One entry of the loop of _restore_tabs_from_state; the result is the
\* state and whether a tab was inserted.
RestoreEntry(S, entry, insert_index) ==
    LET filters == [k \in 1..Len(entry.filters) |-> filter_from_dict(entry.filters[k])]
        id == FreshId(S)
    IN CASE entry.type = "rule" ->
                LET filtered == WithColumn(S.model_df, filters)
                IN [S |-> create_filter_tab(S, filtered, insert_index, entry.name,
                                            entry.filter_mode, FALSE, FALSE, FALSE),
                    inserted |-> filtered # <<>>]
         [] entry.type = "custom" ->
                [S |-> RestoreFilters(create_custom_tab(S, entry.name, insert_index, 0), id,
                                      WithColumn(S.model_df, filters), entry.filter_mode,
                                      WithColumn(S.model_df, filters) # <<>>),
                 inserted |-> TRUE]
         [] entry.type = "file" ->
                [S |-> RestoreFileFilters(
                           create_file_tab_from_path(S, entry.file_path, entry.name, insert_index),
                           id, filters, entry.filter_mode),
                 inserted |-> /\ entry.file_path \in DOMAIN Files
                              /\ ~IsEmpty(load_dataframe_from_file(entry.file_path))]
         [] OTHER -> [S |-> S, inserted |-> FALSE]

RECURSIVE RestoreEntries(_, _, _, _)
\* if inserted: insert_index += 1, and on to the next entry.
RestoreRest(r, entries, k, insert_index) ==
    RestoreEntries(r.S, entries, k + 1, IF r.inserted THEN insert_index + 1 ELSE insert_index)

\* The loop of _restore_tabs_from_state over the saved entries.
RestoreEntries(S, entries, k, insert_index) ==
    IF k > Len(entries) THEN S
    ELSE RestoreRest(RestoreEntry(S, entries[k], insert_index), entries, k, insert_index)

\* MainWindow._restore_tabs_from_state
restore_tabs_from_state(S) ==
    LET saved == S.pending_tabs IN
    IF saved = <<>> THEN S
    ELSE LET first == [S.tabs[1] EXCEPT !.filters = <<>>, !.mode = "all",
                                         !.name = IF saved[1].type = "base" THEN saved[1].name ELSE @]
             gone == {i \in 2..Len(S.tabs) : S.tabs[i].id \in S.extra_models}
             tabs_iter == IF saved[1].type = "base" THEN Tail(saved) ELSE saved
         IN save_state(refresh_rule_state(
                [RestoreEntries([S EXCEPT !.tabs = <<first>>, !.current = 1,
                                          !.extra_models = @ \cap {first.id},
                                          !.leaked = @ + Cardinality(gone)],
                                tabs_iter, 1, 2)
                    EXCEPT !.pending_tabs = <<>>]))

\* MainWindow._apply_pending_filters
apply_pending_filters(S) ==
    IF IsEmpty(S.df) THEN S
    ELSE IF S.pending_tabs # <<>> THEN restore_tabs_from_state(S)
    ELSE S

\* MainWindow._on_data_changed on 'data_loaded'
on_data_changed(S) == refresh_rule_state(rebuild_all_rule_tabs(apply_pending_filters(S)))

\* DataFrameModel.set_dataframe on the base model, with the call of the
\* observer it notifies.
set_dataframe(S, data) ==
    on_data_changed([S EXCEPT !.model_df = data, !.model_fm = clear_all(S.model_fm).filters,
                              !.model_mask = NoMask])

\* A message box with a title only.
Message(title) == [title |-> title, missing |-> {}, extra |-> {}]

\* No message box.
NoDialog == [title |-> None, missing |-> {}, extra |-> {}]

\* The branches of load_file that give the base model a table: the table
\* set, the path kept, app_last_file.txt and an archive snapshot written,
\* the state saved.
Loaded(S, data, filepath, path_first) ==
    save_state([set_dataframe([S EXCEPT !.df = data,
                                        !.current_file_path = IF path_first THEN filepath ELSE @],
                              data)
                   EXCEPT !.current_file_path = filepath, !.last_file = filepath,
                          !.archive_written = TRUE])

\* An error handler that has the path recorded before the message box.
RecordThenFail(S, filepath) ==
    [S EXCEPT !.dialog = Message("Error Loading File"),
              !.current_file_path = filepath, !.last_file = filepath]

\* The except branch of load_file.
on_load_error(S, filepath) == [S EXCEPT !.dialog = Message("Error Loading File")]

\* A load_file that goes on with what merge_dataframes returned without
\* looking at its success flag.
LoadUnchecked(S, filepath, action, now) ==
    IF Raises(filepath) THEN on_load_error(S, filepath) ELSE
    Loaded(S,
           IF ~IsEmpty(S.df) /\ action = "merge"
           THEN merge_dataframes(S.df, add_date_column(load_dataframe_from_file(filepath), now)).df
           ELSE add_date_column(load_dataframe_from_file(filepath), now),
           filepath, IsEmpty(S.df))

\* MainWindow.load_file: the file, what the user answers in the MergeDialog
\* when there is data already, and the time of the load.
load_file(S, filepath, action, now) ==
    LET new_df == add_date_column(load_dataframe_from_file(filepath), now)
        r == merge_dataframes(S.df, new_df)
    IN CASE Raises(filepath) -> on_load_error(S, filepath)
         [] ~IsEmpty(S.df) /\ action = "merge" /\ ~r.ok ->
                [S EXCEPT !.dialog = [title |-> "Column Mismatch",
                                      missing |-> r.msg.missing,
                                      extra |-> r.msg.extra]]
         [] ~IsEmpty(S.df) /\ action = "new_tab" ->
                save_state(create_file_tab(S, new_df, filepath, TabName(filepath), 0))
         [] ~IsEmpty(S.df) /\ action \notin {"merge", "replace", "new_tab"} -> S
         [] OTHER ->
                \* self.df = ..., self.model.set_dataframe(self.df),
                \* self.current_file_path = filepath, in the order of the branch:
                \* the path is set first only when there was no data
                Loaded(S, IF ~IsEmpty(S.df) /\ action = "merge" THEN r.df ELSE new_df,
                       filepath, IsEmpty(S.df))

(***************************************************************************)
(* The handlers of MainWindow                                              *)
(***************************************************************************)

\* MainWindow._on_add_filter and _on_add_filter_for_column, with the rule
\* the FilterDialog returns.
on_add_filter(S, filter_rule) ==
    LET tab == S.tabs[S.current] IN
    IF SourceDf(S, S.current).rows = <<>> THEN [S EXCEPT !.dialog = Message("No Data")]
    ELSE IF tab.kind = "base"
    THEN refresh_rule_state(
             create_filter_tab(S, <<filter_rule>>, 0, TabName(None), tab.mode, FALSE, TRUE, TRUE))
    ELSE add_filter_to_tab(S, tab.id, filter_rule)

\* The chips of the filter panel, as _sync_filter_panel_for_tab fills it for
\* the current tab.
display_filters(S) ==
    LET tab == S.tabs[S.current] IN
    IF tab.kind = "filtered" THEN {}
    ELSE IF tab.kind = "base"
    THEN Range(tab.filters)
         \cup UNION {Range(S.tabs[i].filters) : i \in {j \in 1..Len(S.tabs) : S.tabs[j].kind = "rule"}}
    ELSE Range(tab.filters)

\* The rules of a list on the given column.
OnColumn(filters, column) ==
    SelectIdx(filters, {k \in 1..Len(filters) : filters[k].column = column}, 1)

RECURSIVE ClearColumnInTabs(_, _, _, _)
\* The loop of _on_clear_filters_for_column over the rule tabs it listed
\* at the start.
ClearColumnInTabs(S, ids, k, column) ==
    IF k > Len(ids) THEN S
    ELSE LET st == ensure_tab_filter_state(S, ids[k])
         IN ClearColumnInTabs(RemoveEach(S, ids[k], OnColumn(st.filters, column), 1),
                              ids, k + 1, column)

\* MainWindow._on_clear_filters_for_column
on_clear_filters_for_column(S, column_name) ==
    LET tab == S.tabs[S.current]
        rule_positions == iter_rule_tabs(S)
        rule_ids == [k \in 1..Len(rule_positions) |-> S.tabs[rule_positions[k]].id]
        base_ids == SelectIdx([i \in 1..Len(S.tabs) |-> S.tabs[i].id],
                              {i \in 1..Len(S.tabs) : S.tabs[i].kind = "base"}, 1)
        targets == IF tab.kind \in {"base", "filtered"} THEN rule_ids \o base_ids ELSE <<tab.id>>
        removed_count_is_0 ==
            \A k \in 1..Len(targets) :
                OnColumn(ensure_tab_filter_state(S, targets[k]).filters, column_name) = <<>>
    IN [ClearColumnInTabs(S, targets, 1, column_name)
           EXCEPT !.dialog = IF removed_count_is_0 THEN Message("No Filters") ELSE @]

\* MainWindow._on_filter_removed
on_filter_removed(S, filter_rule) ==
    LET tab == S.tabs[S.current]
        rule_widget == find_rule_tab_for_filter(S, filter_rule)
    IN remove_filter_from_tab(S, IF tab.kind = "base" /\ rule_widget # 0 THEN rule_widget ELSE tab.id,
                              filter_rule)

\* filters[i] = new_filter at the first i with filters[i] == filter_rule
ReplaceFirst(filters, filter_rule, new_filter) ==
    IF ~RuleIn(filter_rule, filters) THEN filters
    ELSE LET i == CHOOSE k \in 1..Len(filters) :
                      RuleEq(filters[k], filter_rule)
                      /\ \A j \in 1..(k - 1) : ~RuleEq(filters[j], filter_rule)
         IN [filters EXCEPT ![i] = new_filter]

\* MainWindow._on_filter_edited, with the rule the FilterDialog returns.
on_filter_edited(S, filter_rule, new_filter) ==
    LET tab == S.tabs[S.current]
        rule_widget == find_rule_tab_for_filter(S, filter_rule)
        target == IF tab.kind = "base" /\ rule_widget # 0 THEN rule_widget ELSE tab.id
        index == indexOf(S, target)
    IN IF SourceDf(S, S.current).rows = <<>> \/ RuleEq(new_filter, filter_rule) THEN S
       ELSE LET S1 == SetFilters(S, target,
                                 ReplaceFirst(S.tabs[index].filters, filter_rule, new_filter))
            IN IF S.tabs[index].kind = "rule"
               THEN save_state(refresh_rule_state(rebuild_rule_tab(S1, target)))
               ELSE save_state(apply_tab_filters(S1, target))

RECURSIVE RemoveRuleTabsFrom(_, _)
\* The loop of _close_all_filter_tabs, from the last tab down to the second.
RemoveRuleTabsFrom(S, i) ==
    IF i <= 1 THEN S
    ELSE RemoveRuleTabsFrom(IF S.tabs[i].kind = "rule" THEN removeTab(S, i) ELSE S, i - 1)

\* MainWindow._close_all_filter_tabs
close_all_filter_tabs(S) == save_state(refresh_rule_state(RemoveRuleTabsFrom(S, Len(S.tabs))))

\* MainWindow._on_clear_all_filters
on_clear_all_filters(S) ==
    IF S.tabs[S.current].kind = "base" THEN close_all_filter_tabs(S)
    ELSE clear_filters_for_tab(S, S.tabs[S.current].id)

\* MainWindow._on_open_rule_tab
on_open_rule_tab(S, filter_rule) ==
    LET existing_widget == find_rule_tab_for_filter(S, filter_rule) IN
    IF existing_widget # 0 THEN show_rule_tab(S, existing_widget)
    ELSE create_filter_tab(S, <<filter_rule>>, 0, TabName(None), "all", TRUE, TRUE, TRUE)

\* MainWindow._on_tab_closed_signal
on_tab_closed_signal(S, index) ==
    IF index = 1 THEN S
    ELSE LET tab == S.tabs[index] IN
         CASE tab.kind = "filtered" -> S
           [] tab.kind = "rule" -> save_state(hide_rule_tab(S, tab.id))
           [] OTHER -> save_state(removeTab([S EXCEPT !.extra_models = @ \ {tab.id}], index))

\* MainWindow._on_close_current_tab
on_close_current_tab(S) == IF S.current > 1 THEN on_tab_closed_signal(S, S.current) ELSE S

\* MainWindow._on_duplicate_tab
on_duplicate_tab(S, index) ==
    LET current_name == strip_tab_count(S.tabs[index].name)
        new_name == [current_name EXCEPT !.copies = @ + 1]
    IN save_state(setCurrentWidget(create_custom_tab(S, new_name, 0, index), FreshId(S)))

\* MainWindow._on_new_custom_tab, with the name the NewTabDialog returns.
on_new_custom_tab(S, name) ==
    save_state(setCurrentWidget(create_custom_tab(S, name, 0, 0), FreshId(S)))

\* on_preset_selected of MainWindow._on_load_preset
on_preset_selected(S, preset) ==
    LET tab == S.tabs[S.current]
    IN [(IF tab.kind = "base"
         THEN create_filter_tab(S, preset.filters, 0, preset.name, "all", FALSE, TRUE, TRUE)
         ELSE AddEach(clear_filters_for_tab(S, tab.id), tab.id, preset.filters, 1))
           EXCEPT !.dialog = Message("Preset Loaded")]

\* MainWindow._on_filter_mode_changed
on_filter_mode_changed(S, mode) == set_tab_filter_mode(S, S.tabs[S.current].id, mode)

\* An edit that is written to the base model as well, whatever the tab.
EditWritesThrough(S, index, row, col, text) ==
    IF S.tabs[index].kind = "base"
    THEN [S EXCEPT !.model_df = setData(S.model_df, row, col, text)]
    ELSE [S EXCEPT !.tabs[index].data = setData(S.tabs[index].data, row, col, text),
                   !.model_df = IF row <= Len(S.model_df.rows) /\ col \in S.model_df.cols
                                THEN setData(S.model_df, row, col, text) ELSE S.model_df]

\* MainWindow._on_edit_cell with the text the input dialog returns: setData
\* on the source model of the tab, then _refresh_all_views, which only
\* invalidates the proxies.
on_edit_cell(S, index, row, col, text) ==
    IF S.tabs[index].kind = "base"
    THEN [S EXCEPT !.model_df = setData(S.model_df, row, col, text)]
    ELSE [S EXCEPT !.tabs[index].data = setData(S.tabs[index].data, row, col, text)]

\* MainWindow._on_move_highlighted past its two early returns: the mask is
\* computed on the base model's table, the rows are taken out of self.df,
\* and what remains is given to the base model.
on_move_highlighted(S) ==
    LET mask == build_union_rule_mask(S, S.model_df)
        remaining_df == Table(S.df.cols, SelectIdx(S.df.rows, {i \in 1..Len(S.df.rows) : ~mask[i]}, 1))
    IN set_dataframe([S EXCEPT !.df = remaining_df], remaining_df)

\* MainWindow._on_filtered_tab_mode_toggled
on_filtered_tab_mode_toggled(S, checked) ==
    save_state(refresh_rule_state([S EXCEPT !.show_matches = checked]))

\* DynamicTabWidget._rename_tab and MainWindow._on_tab_renamed
on_tab_renamed(S, index, new_name) == save_state([S EXCEPT !.tabs[index].name = new_name])

\* QTabBar.moveTab by dragging, then the tabMoved connection of
\* MainWindow: the current tab stays the same widget.
moveTab(S, from, to) ==
    LET moved == S.tabs[from]
        rest == SubSeq(S.tabs, 1, from - 1) \o SubSeq(S.tabs, from + 1, Len(S.tabs))
        order == SubSeq(rest, 1, to - 1) \o <<moved>> \o SubSeq(rest, to, Len(rest))
        S1 == [S EXCEPT !.tabs = order]
    IN save_state([S1 EXCEPT !.current = indexOf(S1, S.tabs[S.current].id)])

\* app_state.json before the first save.
NoStateFile == [exists |-> FALSE, last_file |-> None, filtered_tab_mode |-> "matched",
                tabs |-> <<>>]

\* The "All Students" tab _setup_ui creates.
table_all == NewTab(1, "base", TabName("All Students"), <<>>, "all", EmptyTable, None)

\* MainWindow.__init__ up to _load_saved_state, on the files the last run
\* left.
init(files) ==
    [df |-> EmptyTable, model_df |-> EmptyTable, model_mask |-> NoMask, model_fm |-> <<>>,
     tabs |-> <<table_all>>, current |-> 1,
     show_matches |-> files.state_file.filtered_tab_mode # "unmatched",
     current_file_path |-> None, extra_models |-> {}, leaked |-> 0,
     pending_tabs |-> files.state_file.tabs,
     state_file |-> files.state_file, last_file |-> files.last_file,
     clock |-> files.clock, dialog |-> NoDialog, archive_written |-> FALSE,
     edits |-> files.edits]

\* MainWindow._autoload_last_file
autoload_last_file(S) ==
    IF S.last_file # None /\ S.last_file \in DOMAIN Files
    THEN load_file(S, S.last_file, None, S.clock)
    ELSE S

\* MainWindow.closeEvent, then the next start of the application with its
\* scheduled auto-load.
restart(S) == autoload_last_file(init(save_state(S)))

(***************************************************************************)
(* What the user does                                                      *)
(***************************************************************************)

MaxTabs == 3
MaxClock == 2
MaxCopies == 1
MaxEdits == 1

\* The rules the FilterDialog is made to return.
Rules == {NumericFilter("GPA", ">=", 35), NumericFilter("Sch", ">", 0)}

\* The presets of the LoadPresetDialog.
Presets == {[name |-> TabName("Top"),
             filters |-> <<NumericFilter("GPA", ">=", 35), NumericFilter("Sch", ">", 0)>>]}

\* The name typed in the NewTabDialog, and the one typed to rename a tab.
CustomNames == {TabName("Mine")}
RenameNames == {[stem |-> "Best", copies |-> 0, paren |-> TRUE]}

\* The texts typed in the cell editor: a number, nothing, and text that is
\* no number.
EditTexts == {"39", "", "abc"}

\* The window before the handler runs: the message box of the last one is
\* gone, and nothing is written to archives/ yet.
W == [S0 EXCEPT !.dialog = NoDialog, !.archive_written = FALSE]

\* The standalone FilterManager and merge_dataframes do not move.
Others == UNCHANGED <<fmVars, mgVars, pfVars>>

\* A filter panel and filter actions that are never disabled.
UiAlwaysEnabled == TRUE

\* The filter panel and the Rules menu are enabled (_set_filter_ui_enabled).
FilterUiEnabled == tabs[current].kind # "filtered"

\* File > Open with no data loaded yet.
OpenFile(f) ==
    /\ IsEmpty(df)
    /\ clock < MaxClock
    /\ Becomes(load_file([W EXCEPT !.clock = clock + 1], f, None, clock + 1))
    /\ Others

\* File > Open with data loaded, answering the MergeDialog.
LoadMore(f, action) ==
    /\ ~IsEmpty(df)
    /\ clock < MaxClock
    /\ action = "new_tab" => Len(tabs) < MaxTabs
    /\ Becomes(load_file([W EXCEPT !.clock = clock + 1], f, action, clock + 1))
    /\ Others

\* "Create Rule" / "Add Filter" / Ctrl+F
AddFilter(rule) ==
    /\ FilterUiEnabled
    /\ tabs[current].kind = "base" => Len(tabs) < MaxTabs
    /\ SourceDf(S0, current).rows # <<>> => rule.column \in SourceDf(S0, current).cols
    /\ Becomes(on_add_filter(W, rule))
    /\ Others

\* The remove button of a chip.
RemoveFilter(rule) ==
    /\ rule \in display_filters(S0)
    /\ Becomes(on_filter_removed(W, rule))
    /\ Others

\* A chip edited into another rule.
EditFilter(rule, new) ==
    /\ rule \in display_filters(S0)
    /\ SourceDf(S0, current).rows # <<>>
    /\ new.column \in SourceDf(S0, current).cols
    /\ new # rule
    /\ Becomes(on_filter_edited(W, rule, new))
    /\ Others

\* "Clear All Filters"
ClearAllFilters ==
    /\ FilterUiEnabled
    /\ Becomes(on_clear_all_filters(W))
    /\ Others

\* "Clear filters" in the header menu of a column of the current table.
ClearColumn(column) ==
    /\ tabs[current].kind \in {"base", "rule", "custom"}
    /\ column \in SourceDf(S0, current).cols
    /\ Becomes(on_clear_filters_for_column(W, column))
    /\ Others

\* "Open rule tab" in the menu of a chip.
OpenRuleTab(rule) ==
    /\ rule \in display_filters(S0)
    /\ find_rule_tab_for_filter(S0, rule) = 0 => Len(tabs) < MaxTabs
    /\ Becomes(on_open_rule_tab(W, rule))
    /\ Others

\* Tabs > Close All Rule Tabs
CloseAllRuleTabs ==
    /\ Becomes(close_all_filter_tabs(W))
    /\ Others

\* The close button or "Close Tab" of the tab at position i, confirmed:
\* DynamicTabWidget._on_tab_close_requested emits tabClosed.
CloseTab(i) ==
    /\ i \in 2..Len(tabs)
    /\ tabs[i].visible
    /\ tabs[i].kind # "filtered"
    /\ Becomes(on_tab_closed_signal(W, i))
    /\ Others

\* Ctrl+W
CloseCurrentTab ==
    /\ Becomes(on_close_current_tab(W))
    /\ Others

\* "Duplicate View" of the tab at position i.
DuplicateTab(i) ==
    /\ i \in 2..Len(tabs)
    /\ tabs[i].visible
    /\ tabs[i].kind # "filtered"
    /\ tabs[i].name.copies < MaxCopies
    /\ Len(tabs) < MaxTabs
    /\ Becomes(on_duplicate_tab(W, i))
    /\ Others

\* Ctrl+T
NewCustomTab(name) ==
    /\ Len(tabs) < MaxTabs
    /\ Becomes(on_new_custom_tab(W, name))
    /\ Others

\* A preset picked in the LoadPresetDialog.
LoadPreset(preset) ==
    /\ FilterUiEnabled
    /\ tabs[current].kind = "base" => Len(tabs) < MaxTabs
    /\ Becomes(on_preset_selected(W, preset))
    /\ Others

\* The AND/OR switch of the filter panel.
SetFilterMode(mode) ==
    /\ FilterUiEnabled
    /\ mode # tabs[current].mode
    /\ Becomes(on_filter_mode_changed(W, mode))
    /\ Others

\* Tabs > Filtered Tab Shows Matching Rows
ToggleFilteredMode ==
    /\ Becomes(on_filtered_tab_mode_toggled(W, ~show_matches))
    /\ Others

\* A click on another tab.
SelectTab(i) ==
    /\ i \in 1..Len(tabs)
    /\ i # current
    /\ tabs[i].visible
    /\ Becomes([W EXCEPT !.current = i])
    /\ Others

\* The application closed and started again.
Restart ==
    /\ Becomes(restart(W))
    /\ Others

\* A cell of the current table edited: a shown row, a data column.
EditCell(row, col, text) ==
    /\ edits < MaxEdits
    /\ row \in VisibleRows(S0, current)
    /\ col \in SourceDf(S0, current).cols \ {DATE_COL_NAME}
    /\ Becomes(on_edit_cell([W EXCEPT !.edits = edits + 1], current, row, col, text))
    /\ Others

\* "Rename Tab..." of the tab at position i.
RenameTab(i, name) ==
    /\ edits < MaxEdits
    /\ i \in 1..Len(tabs)
    /\ tabs[i].visible
    /\ tabs[i].name # name
    /\ Becomes(on_tab_renamed([W EXCEPT !.edits = edits + 1], i, name))
    /\ Others

\* A tab dragged onto the place of another one.
MoveTab(from, to) ==
    /\ edits < MaxEdits
    /\ from \in 1..Len(tabs)
    /\ to \in 1..Len(tabs)
    /\ from # to
    /\ tabs[from].visible
    /\ tabs[to].visible
    /\ Becomes(moveTab([W EXCEPT !.edits = edits + 1], from, to))
    /\ Others

\* Tabs > Move Filtered to New Window, on the main dataset with a row that
\* matches.
MoveHighlighted ==
    /\ tabs[current].kind = "base"
    /\ \E i \in 1..Len(build_union_rule_mask(S0, model_df)) : build_union_rule_mask(S0, model_df)[i]
    /\ Becomes(on_move_highlighted(W))
    /\ Others

MWInit ==
    /\ df = EmptyTable
    /\ model_df = EmptyTable
    /\ model_mask = NoMask
    /\ model_fm = <<>>
    /\ tabs = <<table_all>>
    /\ current = 1
    /\ show_matches = TRUE
    /\ current_file_path = None
    /\ extra_models = {}
    /\ leaked = 0
    /\ pending_tabs = <<>>
    /\ state_file = NoStateFile
    /\ last_file = None
    /\ clock = 0
    /\ dialog = NoDialog
    /\ archive_written = FALSE
    /\ edits = 0
    /\ steps = 0

\* FilterManager.__init__, and no call made yet.
NoCall == [op |-> None, row |-> <<>>, result |-> FALSE, rule |-> None, stored |-> FALSE,
           events |-> <<>>]
FMIdle == fm_filters = <<>> /\ fm_call = NoCall /\ fm_observers = <<>>

\* merge_dataframes not called.
NoMerge == [df |-> EmptyTable, ok |-> FALSE, msg |-> MismatchMessage({}, {}), done |-> FALSE]
\* No merge done twice.
NoAgain == [self |-> FALSE, first |-> EmptyTable, second |-> EmptyTable, done |-> FALSE]
MGIdle ==
    /\ mg_existing = EmptyTable
    /\ mg_new = EmptyTable
    /\ mg_out = NoMerge
    /\ mg_again = NoAgain

\* No method called on its own.
NoCallYet == [fn |-> None]
PFIdle == call = NoCallYet /\ ret = NoCallYet

Init == MWInit /\ FMIdle /\ MGIdle /\ PFIdle

Next ==
    \/ \E f \in Paths : OpenFile(f)
    \/ \E f \in Paths, action \in {"merge", "replace", "new_tab"} : LoadMore(f, action)
    \/ \E rule \in Rules : AddFilter(rule)
    \/ \E rule \in Rules : RemoveFilter(rule)
    \/ \E rule \in Rules, new \in Rules : EditFilter(rule, new)
    \/ ClearAllFilters
    \/ \E column \in {"GPA", "Sch"} : ClearColumn(column)
    \/ \E rule \in Rules : OpenRuleTab(rule)
    \/ CloseAllRuleTabs
    \/ \E i \in 1..MaxTabs : CloseTab(i)
    \/ CloseCurrentTab
    \/ \E i \in 1..MaxTabs : DuplicateTab(i)
    \/ \E name \in CustomNames : NewCustomTab(name)
    \/ \E preset \in Presets : LoadPreset(preset)
    \/ \E mode \in {"all", "any"} : SetFilterMode(mode)
    \/ ToggleFilteredMode
    \/ \E i \in 1..MaxTabs : SelectTab(i)
    \/ Restart
    \/ \E row \in 1..4, col \in {"GPA", "Sch"}, text \in EditTexts : EditCell(row, col, text)
    \/ \E i \in 1..MaxTabs, name \in RenameNames : RenameTab(i, name)
    \/ \E from \in 1..MaxTabs, to \in 1..MaxTabs : MoveTab(from, to)
    \/ MoveHighlighted

Spec == Init /\ [][Next]_vars

(***************************************************************************)
(* A FilterManager on its own                                              *)
(***************************************************************************)

\* The rules and the rows it is given: two columns, rules that agree and
\* rules that disagree on a cell, a row without the second column.
FMRules == {NumericFilter("GPA", ">=", 35), NumericFilter("GPA", "<=", 40),
            NumericFilter("GPA", "<=", 30), NumericFilter("Sch", ">", 0)}
FMRows == {[GPA |-> 36, Sch |-> 0], [GPA |-> 36, Sch |-> 500], [GPA |-> 20, Sch |-> 500],
           [GPA |-> 36]}

\* The calls a mutation makes on the observers: none when it does not
\* notify.
Notified(out, event) == IF out.notified THEN notify_observers(fm_observers, event) ELSE <<>>

FmAddFilter(rule) ==
    /\ fm_filters' = add_filter(fm_filters, rule).filters
    /\ fm_call' = [NoCall EXCEPT !.op = "add_filter", !.rule = rule,
                                 !.stored = RuleIn(rule, get_filters_for_column(fm_filters, rule.column)),
                                 !.events = Notified(add_filter(fm_filters, rule), "filter_added")]
    /\ UNCHANGED <<fm_observers, mwVars, mgVars, pfVars>>

FmRemoveFilter(rule) ==
    /\ fm_filters' = remove_filter(fm_filters, rule).filters
    /\ fm_call' = [NoCall EXCEPT !.op = "remove_filter", !.rule = rule,
                                 !.stored = RuleIn(rule, get_filters_for_column(fm_filters, rule.column)),
                                 !.events = Notified(remove_filter(fm_filters, rule), "filter_removed")]
    /\ UNCHANGED <<fm_observers, mwVars, mgVars, pfVars>>

FmClearColumn(column) ==
    /\ fm_filters' = clear_column_filters(fm_filters, column).filters
    /\ fm_call' = [NoCall EXCEPT !.op = "clear_column_filters",
                                 !.stored = HasBucket(fm_filters, column),
                                 !.events = Notified(clear_column_filters(fm_filters, column),
                                                     "column_filters_cleared")]
    /\ UNCHANGED <<fm_observers, mwVars, mgVars, pfVars>>

FmClearAll ==
    /\ fm_filters' = clear_all(fm_filters).filters
    /\ fm_call' = [NoCall EXCEPT !.op = "clear_all", !.stored = TRUE,
                                 !.events = Notified(clear_all(fm_filters), "filters_cleared")]
    /\ UNCHANGED <<fm_observers, mwVars, mgVars, pfVars>>

FmMatchesAll(row) ==
    /\ fm_call' = [NoCall EXCEPT !.op = "matches_all_filters", !.row = row,
                                 !.result = matches_all_filters(fm_filters, row)]
    /\ UNCHANGED <<fm_filters, fm_observers, mwVars, mgVars, pfVars>>

FmMatchesAny(row) ==
    /\ fm_call' = [NoCall EXCEPT !.op = "matches_any_filter", !.row = row,
                                 !.result = matches_any_filter(fm_filters, row)]
    /\ UNCHANGED <<fm_filters, fm_observers, mwVars, mgVars, pfVars>>

\* The callbacks registered: the model's, a panel's, and one that raises.
FMObservers == {"model", "panel", "bad"}

FmAddObserver(callback) ==
    /\ fm_observers' = add_observer(fm_observers, callback)
    /\ fm_call' = [NoCall EXCEPT !.op = "add_observer"]
    /\ UNCHANGED <<fm_filters, mwVars, mgVars, pfVars>>

FmRemoveObserver(callback) ==
    /\ fm_observers' = remove_observer(fm_observers, callback)
    /\ fm_call' = [NoCall EXCEPT !.op = "remove_observer"]
    /\ UNCHANGED <<fm_filters, mwVars, mgVars, pfVars>>

FMNext ==
    \/ \E rule \in FMRules : FmAddFilter(rule)
    \/ \E rule \in FMRules : FmRemoveFilter(rule)
    \/ \E column \in {"GPA", "Sch"} : FmClearColumn(column)
    \/ FmClearAll
    \/ \E row \in FMRows : FmMatchesAll(row)
    \/ \E row \in FMRows : FmMatchesAny(row)
    \/ \E callback \in FMObservers : FmAddObserver(callback)
    \/ \E callback \in FMObservers : FmRemoveObserver(callback)

SpecFM == Init /\ [][FMNext]_vars

(***************************************************************************)
(* merge_dataframes on its own                                             *)
(***************************************************************************)

\* How many rows a table given to it has at most.
MaxMergeRows == 2

\* The tables of up to MaxMergeRows rows over the given columns, with cells
\* 0 and 1.
TablesOver(cols) ==
    {Table(cols, rows) : rows \in UNION {[1..n -> [cols -> 0..1]] : n \in 0..MaxMergeRows}}

\* The table already loaded: its rows carry the times 0 and 1 of earlier
\* loads.  The table read from the file: load_file stamps it with the time
\* of this load, 2.
ExistingTables == TablesOver({"A", DATE_COL_NAME}) \cup TablesOver({"A", "B", DATE_COL_NAME})
NewTables == {add_date_column(t, 2) : t \in TablesOver({"A"}) \cup TablesOver({"A", "B"})}

MGInit ==
    /\ MWInit
    /\ FMIdle
    /\ mg_existing \in ExistingTables
    /\ mg_new \in NewTables
    /\ mg_out = NoMerge
    /\ mg_again = NoAgain
    /\ PFIdle

MgMerge ==
    /\ ~mg_out.done
    /\ mg_out' = [df |-> merge_dataframes(mg_existing, mg_new).df,
                  ok |-> merge_dataframes(mg_existing, mg_new).ok,
                  msg |-> merge_dataframes(mg_existing, mg_new).msg,
                  done |-> TRUE]
    /\ UNCHANGED <<mg_existing, mg_new, mg_again, mwVars, fmVars, pfVars>>

\* merge_dataframes called with a table, and called again with what it
\* returned and the same incoming table; the incoming table is new_df, or
\* (self) the existing table itself.
MgMergeTwice(self) ==
    /\ ~mg_again.done
    /\ mg_again' =
           [self |-> self,
            first |-> merge_dataframes(mg_existing, IF self THEN mg_existing ELSE mg_new).df,
            second |-> merge_dataframes(
                           merge_dataframes(mg_existing, IF self THEN mg_existing ELSE mg_new).df,
                           IF self THEN mg_existing ELSE mg_new).df,
            done |-> TRUE]
    /\ UNCHANGED <<mg_existing, mg_new, mg_out, mwVars, fmVars, pfVars>>

MGNext ==
    \/ MgMerge
    \/ \E self \in BOOLEAN : MgMergeTwice(self)

SpecMerge == MGInit /\ [][MGNext]_vars

(***************************************************************************)
(* SmartSearchProxy.filterAcceptsRow on its own                            *)
(***************************************************************************)

\* The row of the model the proxy is asked about: a name (or none) and a
\* number.
ProxyRows ==
    {[Name |-> name, GPA |-> gpa] :
        name \in {Text(<<"A", "l">>), Text(<<"b">>), NanCell}, gpa \in {Num(3), Num(10)}}

\* What the search box can hold after setSearchText, and the column chosen
\* for it: none, one of the table, or one the table does not have.
SearchTexts == {<<>>, <<"a">>, <<"A", "L">>, <<"1">>}
SearchColumns == {None, "Name", "GPA", "Zip"}

\* The extra filters given to setExtraFilters: rules on GPA and on Name,
\* and a rule on Zip, which the table does not have.
ExtraFilterLists ==
    LET gpa == NumericFilter("GPA", ">=", 5)
        zip == NumericFilter("Zip", ">=", 0)
        name == TextFilter("Name", <<<<"a">>>>, FALSE)
    IN {<<>>, <<gpa>>, <<zip>>, <<gpa, zip>>, <<zip, gpa>>, <<gpa, name>>, <<zip, name>>}

\* A proxy, its source model of one row, and the row asked about.
ProxyCalls ==
    {[fn |-> "filterAcceptsRow",
      proxy |-> Proxy(text, column, mode, extra, extra_mode),
      model |-> ProxyModel({"Name", "GPA"}, <<row>>, active, <<highlighted>>),
      source_row |-> 1] :
        text \in SearchTexts, column \in SearchColumns,
        mode \in {"all", "highlighted", "unhighlighted"},
        extra \in ExtraFilterLists, extra_mode \in {"all", "any"},
        row \in ProxyRows, active \in BOOLEAN, highlighted \in BOOLEAN}

PXInit ==
    /\ MWInit
    /\ FMIdle
    /\ MGIdle
    /\ call \in ProxyCalls
    /\ ret = NoCallYet

\* The view asks its proxy whether it shows the row.
FilterAcceptsRow ==
    /\ ret = NoCallYet
    /\ ret' = [fn |-> call.fn, value |-> filterAcceptsRow(call.proxy, call.model, call.source_row)]
    /\ UNCHANGED <<call, mwVars, fmVars, mgVars>>

PXNext == FilterAcceptsRow

SpecProxy == PXInit /\ [][PXNext]_vars

(***************************************************************************)
(* The rule classes on their own: matches, to_dict / from_dict, ==, hash   *)
(***************************************************************************)

\* How many tokens a token list given to TextFilter has at most.
MaxTokens == 2

\* The dates used: two days of one month, and days of the months around.
D0 == Date(2023, 12, 31)
D1 == Date(2024, 1, 5)
D2 == Date(2024, 2, 1)
D3 == Date(2024, 2, 2)

\* The numeric rules, one per operator, and the objects they are tried on.
NumericRules == {NumericFilter("GPA", op, 5) : op \in OPERATORS}
NumericValues ==
    {Num(3), Num(5), Num(7), NanCell, Text(<<"7">>), Text(<<" ", "5">>), Text(<<"a">>),
     NoneCell, DateCell(D1)}

\* The tokens the FilterDialog can hand over (an entry between two commas
\* may be empty, a token may come with a blank), the lists of them, and the
\* texts of a cell.
GivenTokens == {<<>>, <<"a">>, <<"A">>, <<" ", "a">>, <<"b">>}
TokenLists == UNION {[1..n -> GivenTokens] : n \in 0..MaxTokens}
CellTexts == {Text(<<"b", "a">>), Text(<<"A">>), Text(<<"l">>)}

\* The bounds of a DateFilter, and the objects of a cell of a date column.
OptionalDates == {NoDate, Some(D1), Some(D2)}
DateRules == {DateFilter("Date", start, end) : start \in OptionalDates, end \in OptionalDates}
DateValues ==
    {DateCell(D0), DateCell(D1), DateCell(D2), DateCell(D3), Text(isoformat(D2)), Text(<<"a">>),
     NaTCell, NanCell, NoneCell}

\* The calls of matches.
MatchCalls ==
    {[fn |-> "matches", rule |-> rule, value |-> value] :
        rule \in NumericRules, value \in NumericValues}
    \cup {[fn |-> "matches", rule |-> TextFilter("Name", tokens, case_sensitive),
           given |-> tokens, value |-> value] :
            tokens \in TokenLists, case_sensitive \in BOOLEAN, value \in CellTexts}
    \cup {[fn |-> "matches", rule |-> rule, value |-> value] :
            rule \in DateRules, value \in DateValues}

\* The rules serialised and read back.
TextRules == {TextFilter("Name", tokens, case_sensitive) : tokens \in TokenLists, case_sensitive \in BOOLEAN}
RoundTripCalls == {[fn |-> "round_trip", rule |-> rule] : rule \in NumericRules \cup TextRules \cup DateRules}

\* The pairs of rules compared and hashed.
ComparedRules ==
    {NumericFilter("GPA", ">=", 5), NumericFilter("GPA", ">", 5), NumericFilter("Sch", ">=", 5)}
    \cup {TextFilter("Name", tokens, FALSE) : tokens \in UNION {[1..n -> {<<"a">>, <<"b">>}] : n \in 0..MaxTokens}}
    \cup {TextFilter("Name", <<<<"a">>>>, TRUE)}
    \cup {DateFilter("Date", Some(D1), NoDate), DateFilter("Date", Some(D1), Some(D2)),
          DateFilter("Date", NoDate, NoDate)}
CompareCalls == {[fn |-> "compare", a |-> a, b |-> b] : a \in ComparedRules, b \in ComparedRules}

RLInit ==
    /\ MWInit
    /\ FMIdle
    /\ MGIdle
    /\ call \in MatchCalls \cup RoundTripCalls \cup CompareCalls
    /\ ret = NoCallYet

\* What rule.matches(value) can do: return True or False, or raise.
MatchOutcomes(rule, value) ==
    CASE rule.type = "numeric" -> {IF NumericFilter_matches(rule, value) THEN "True" ELSE "False"}
      [] rule.type = "text" -> {IF TextFilter_matches(rule, value) THEN "True" ELSE "False"}
      [] rule.type = "date" -> DateFilter_matches(rule, value)

\* rule.matches(value)
RuleMatches ==
    /\ call.fn = "matches"
    /\ ret = NoCallYet
    /\ \E outcome \in MatchOutcomes(call.rule, call.value) :
            ret' = [fn |-> call.fn, outcome |-> outcome]
    /\ UNCHANGED <<call, mwVars, fmVars, mgVars>>

\* d = rule.to_dict(); rule2 = from_dict(d); rule2.to_dict()
RoundTrip ==
    /\ call.fn = "round_trip"
    /\ ret = NoCallYet
    /\ ret' = [fn |-> call.fn,
               dict |-> to_dict(call.rule),
               rule |-> filter_from_dict(to_dict(call.rule)),
               again |-> to_dict(filter_from_dict(to_dict(call.rule)))]
    /\ UNCHANGED <<call, mwVars, fmVars, mgVars>>

\* a == b, hash(a), hash(b)
Compare ==
    /\ call.fn = "compare"
    /\ ret = NoCallYet
    /\ ret' = [fn |-> call.fn, eq |-> RuleEq(call.a, call.b),
               hash_a |-> rule_hash(call.a), hash_b |-> rule_hash(call.b)]
    /\ UNCHANGED <<call, mwVars, fmVars, mgVars>>

RLNext == RuleMatches \/ RoundTrip \/ Compare

SpecRules == RLInit /\ [][RLNext]_vars

(***************************************************************************)
(* The search bar and the proxies of the tabs                              *)
(***************************************************************************)

\* The methods the class SmartSearchProxy defines besides those of
\* QSortFilterProxyModel.
SmartSearchProxyMethods ==
    {"setSearchText", "setSearchColumn", "setFilterMode", "setExtraFilters",
     "setExtraFilterMode", "filterAcceptsRow", "_get_column_index"}

\* SmartSearchProxy.setSearchText
setSearchText(proxy, text) == [proxy EXCEPT !.search_text = strip(text)]

\* SmartSearchProxy.setSearchColumn
setSearchColumn(proxy, column_name) == [proxy EXCEPT !.search_column = column_name]

\* proxy.method(...) of a handler: the attribute is looked up on the proxy,
\* and AttributeError is raised when the class has no such method.
CallOnProxy(proxy, method, column, text) ==
    CASE method \notin SmartSearchProxyMethods -> [raised |-> TRUE, proxy |-> proxy]
      [] method = "setSearchText" -> [raised |-> FALSE, proxy |-> setSearchText(proxy, text)]
      [] method = "setSearchColumn" -> [raised |-> FALSE, proxy |-> setSearchColumn(proxy, column)]
      [] OTHER -> [raised |-> FALSE, proxy |-> proxy]

\* The loop of _on_modern_search_changed from the k-th tab on: the call on
\* the proxy of each tab, left at the first exception.
RECURSIVE SearchEachTab(_, _, _, _)
SearchEachTab(views, text, column, k) ==
    IF k > Len(views) THEN [raised |-> FALSE, views |-> views]
    ELSE LET method == IF column = "Global" THEN "setGlobalSearchTerm" ELSE "setColumnSearchTerm"
             out == CallOnProxy(views[k].proxy, method, column, text)
         IN IF out.raised THEN [raised |-> TRUE, views |-> views]
            ELSE SearchEachTab([views EXCEPT ![k].proxy = out.proxy], text, column, k + 1)

\* MainWindow._on_modern_search_changed with what ModernSearchBar emits:
\* the text and the data of the chosen item.
on_modern_search_changed(views, text, column) == SearchEachTab(views, text, column, 1)

\* MainWindow._apply_search_to_all_tabs, with the text of the line edit and
\* the text of the chosen item of the combo box.
apply_search_to_all_tabs(views, text, selected) ==
    LET column == IF selected = "Global" THEN None ELSE selected
    IN [k \in 1..Len(views) |->
           [views[k] EXCEPT !.proxy =
               setSearchColumn(setSearchText(views[k].proxy, text),
                               IF column = None THEN None
                               ELSE IF model_has_column(views[k], column) THEN column
                               ELSE None)]]

\* What the line edit holds, and the items of the combo box as
\* update_columns fills it: "All columns" with the data "Global", then a
\* column with its name as data; one column is in no table.
BarTexts == {<<>>, <<"a">>, <<" ", "a">>, <<"A", "l">>}
ScopeItems ==
    {[text |-> "All columns", data |-> "Global"], [text |-> "Name", data |-> "Name"],
     [text |-> "Zip", data |-> "Zip"]}

\* The tabs: the columns of the table of each, and its proxy with what an
\* earlier search left in it.
TabViews ==
    {[cols |-> cols, proxy |-> Proxy(old, column, "all", <<>>, "all")] :
        cols \in {{"Name", "GPA"}, {"GPA"}}, old \in {<<>>, <<"b">>}, column \in {None, "GPA"}}
SearchCalls ==
    {[fn |-> "search", text |-> text, item |-> item, views |-> views] :
        text \in BarTexts, item \in ScopeItems,
        views \in {<<v>> : v \in TabViews} \cup {<<v, w>> : v \in {[cols |-> {"Name", "GPA"}, proxy |-> Proxy(<<>>, None, "all", <<>>, "all")]}, w \in TabViews}}

SBInit ==
    /\ MWInit
    /\ FMIdle
    /\ MGIdle
    /\ call \in SearchCalls
    /\ ret = NoCallYet

\* The text or the scope of the search bar changes: ModernSearchBar emits
\* searchChanged(text, column) and the handler of MainWindow runs.
SearchChanged ==
    /\ call.fn = "search"
    /\ ret = NoCallYet
    /\ ret' = [fn |-> "_on_modern_search_changed",
               raised |-> on_modern_search_changed(call.views, call.text, call.item.data).raised,
               views |-> on_modern_search_changed(call.views, call.text, call.item.data).views]
    /\ UNCHANGED <<call, mwVars, fmVars, mgVars>>

\* The active tab changes: _sync_active_tab_context applies the search
\* settings of the bar.
ApplySearch ==
    /\ call.fn = "search"
    /\ ret = NoCallYet
    /\ ret' = [fn |-> "_apply_search_to_all_tabs", raised |-> FALSE,
               views |-> apply_search_to_all_tabs(call.views, call.text, call.item.text)]
    /\ UNCHANGED <<call, mwVars, fmVars, mgVars>>

SBNext == SearchChanged \/ ApplySearch

SpecSearch == SBInit /\ [][SBNext]_vars

(***************************************************************************)
(* What the specification says of the program                              *)
(***************************************************************************)

\* The columns that have at least one active rule, and the rules of a column.
ActiveColumns(filters) ==
    {filters[i].column : i \in {j \in 1..Len(filters) : filters[j].rules # <<>>}}
RulesOn(filters, c) == Range(get_filters_for_column(filters, c))

\* C1, as stated: matches_all_filters(row) is true if and only if, for every
\* column with an active rule, the row has the column and its cell matches
\* at least one of the rules of that column.
C1_MatchesOneRulePerColumn ==
    fm_call.op = "matches_all_filters" =>
        (fm_call.result <=>
            \A c \in ActiveColumns(fm_filters) :
                /\ c \in DOMAIN fm_call.row
                /\ \E r \in RulesOn(fm_filters, c) : Matches(r, fm_call.row[c]))

\* C1, amended: matches_all_filters(row) is true if and only if, for every
\* column with an active rule, the row has the column and its cell matches
\* every rule of that column; so it is true with no rules, and false as
\* soon as the rules of some column all fail on the cell.
C1_MatchesEveryRule ==
    fm_call.op = "matches_all_filters" =>
        /\ fm_call.result <=>
               \A c \in ActiveColumns(fm_filters) :
                   /\ c \in DOMAIN fm_call.row
                   /\ \A r \in RulesOn(fm_filters, c) : Matches(r, fm_call.row[c])
        /\ fm_filters = <<>> => fm_call.result
        /\ (\E c \in ActiveColumns(fm_filters) \cap DOMAIN fm_call.row :
                \A r \in RulesOn(fm_filters, c) : ~Matches(r, fm_call.row[c]))
           => ~fm_call.result

\* C1, the case that tells the two apart: matches_all_filters has answered
\* false on a row that has every column with rules, where each of these
\* columns has a rule the cell matches and one column has a rule it fails.
C1_RulesOfAColumnDisagree ==
    /\ fm_call.op = "matches_all_filters"
    /\ ~fm_call.result
    /\ ActiveColumns(fm_filters) # {}
    /\ \A c \in ActiveColumns(fm_filters) :
           /\ c \in DOMAIN fm_call.row
           /\ \E r \in RulesOn(fm_filters, c) : Matches(r, fm_call.row[c])
    /\ \E c \in ActiveColumns(fm_filters) :
           \E r \in RulesOn(fm_filters, c) : ~Matches(r, fm_call.row[c])

\* C2, as stated: in every reachable state the base tab is a tab of the tab
\* widget.
C2_BaseTabPresent == \E i \in 1..Len(tabs) : tabs[i].kind = "base"

\* A row matches a filter set under a mode: of the filters on columns the
\* row has, there is one, and one of them (any) or each of them (all)
\* matches its cell.
MatchesFilterSet(row, filters, mode) ==
    LET applicable == {k \in 1..Len(filters) : filters[k].column \in DOMAIN row}
    IN /\ applicable # {}
       /\ IF mode = "any"
          THEN \E k \in applicable : Matches(filters[k], row[filters[k].column])
          ELSE \A k \in applicable : Matches(filters[k], row[filters[k].column])

\* The rule tabs that hold filters, but for the tab at position i.
RuleTabsBut(i) ==
    {j \in 1..Len(tabs) : j # i /\ tabs[j].kind = "rule" /\ tabs[j].filters # <<>>}

\* The row matches the filter set of at least one rule tab other than the
\* one at position i (0: of any rule tab).
MatchesSomeRuleTabBut(i, row) ==
    \E j \in RuleTabsBut(i) : MatchesFilterSet(row, tabs[j].filters, tabs[j].mode)

\* The rows of the shared table the filtered tab is to hold, the rule tab at
\* position i left out.
FilteredRowsBut(i) ==
    Table(model_df.cols,
          SelectIdx(model_df.rows,
                    {r \in 1..Len(model_df.rows) :
                         MatchesSomeRuleTabBut(i, model_df.rows[r]) = show_matches}, 1))

\* The positions of the filtered tabs.
FilteredTabs == {i \in 1..Len(tabs) : tabs[i].kind = "filtered"}

\* The saved entries of the rule tabs.
SavedRuleEntries == {k \in 1..Len(state_file.tabs) : state_file.tabs[k].type = "rule"}

\* C3, as stated: after the user closes a tab that is neither the base nor
\* the filtered tab, a rule tab's rules no longer contribute to the
\* highlight mask of the base model, to its filter manager, to the filtered
\* tab or to the saved state, and a custom or file tab's model is no longer
\* held in _extra_models.
C3_ClosedTabStateGone ==
    [][\A i \in 2..MaxTabs :
          (CloseTab(i) /\ tabs[i].kind # "base") =>
              IF tabs[i].kind = "rule"
              THEN /\ \A r \in 1..Len(model_df.rows) :
                          is_row_highlighted(model_df', model_mask', model_fm', r)
                              <=> MatchesSomeRuleTabBut(i, model_df.rows[r])
                   /\ \A c \in ActiveColumns(model_fm') :
                          \A rule \in RulesOn(model_fm', c) :
                              \E j \in RuleTabsBut(i) : RuleIn(rule, tabs[j].filters)
                   /\ \A k \in FilteredTabs' : tabs'[k].data = FilteredRowsBut(i)
                   /\ Cardinality(SavedRuleEntries')
                          = Cardinality({j \in 1..Len(tabs) : j # i /\ tabs[j].kind = "rule"})
              ELSE /\ leaked' = leaked
                   /\ Cardinality(extra_models') = Cardinality(extra_models) - 1
      ]_vars

\* C4, as stated: the highlight mask of the base model is up to date: row i
\* is marked if and only if row i of the shared table matches the filter set
\* of at least one rule tab under the mode of that tab.
C4_MaskUpToDate ==
    \A r \in 1..Len(model_df.rows) :
        is_row_highlighted(model_df, model_mask, model_fm, r)
            <=> MatchesSomeRuleTabBut(0, model_df.rows[r])

\* The filter sets of the rule tabs, with their modes.
RuleDefSet == {[filters |-> tabs[j].filters, mode |-> tabs[j].mode] : j \in RuleTabsBut(0)}

\* C5: there is at most one filtered tab, and after every rule change, load
\* of the shared table or toggle of "filtered tab shows matching rows" it
\* holds exactly the rows of the shared table that match the filter set of
\* at least one rule tab (match mode), or exactly those that match none
\* (non-match mode); with a shared table loaded, the tab is there.
C5_FilteredTabShowsUnion ==
    [][/\ Cardinality(FilteredTabs') <= 1
       /\ (RuleDefSet' # RuleDefSet \/ df' # df \/ show_matches' # show_matches)
              => /\ ~IsEmpty(df') => FilteredTabs' # {}
                 /\ \A k \in FilteredTabs' : tabs'[k].data = FilteredRowsBut(0)'
      ]_vars

\* C5, the example: the single rule GPA >= 3.5 over the rows GPA 3.6 and
\* GPA 2.0, match mode, and the filtered tab holds the first row only.
C5_FilteredHoldsFirstRow ==
    /\ show_matches
    /\ RuleDefSet = {[filters |-> <<NumericFilter("GPA", ">=", 35)>>, mode |-> "all"]}
    /\ Len(model_df.rows) = 2
    /\ model_df.rows[1].GPA = 36
    /\ model_df.rows[2].GPA = 20
    /\ \E k \in FilteredTabs : tabs[k].data.rows = <<model_df.rows[1]>>

\* The rows of a table that match a filter set under a mode.
RowsMatching(data, filters, mode) ==
    Table(data.cols,
          SelectIdx(data.rows,
                    {r \in 1..Len(data.rows) : MatchesFilterSet(data.rows[r], filters, mode)}, 1))

\* Row r of the tab at position i is marked by the tab's own highlight mask.
TabHighlights(i, r) == ~tabs[i].hmask.none /\ tabs[i].hmask.bits[r]

\* A row matches a filter list as C6 states it: under "any" one of the
\* tab's filters matches its cell, under "all" every one of them does.
StatedMatch(row, filters, mode) ==
    IF mode = "any"
    THEN \E k \in 1..Len(filters) :
             filters[k].column \in DOMAIN row /\ Matches(filters[k], row[filters[k].column])
    ELSE \A k \in 1..Len(filters) :
             filters[k].column \in DOMAIN row /\ Matches(filters[k], row[filters[k].column])

\* The two filters and the two rows of the example of C6.
ExampleFilters == <<NumericFilter("GPA", ">=", 35), NumericFilter("Sch", ">", 0)>>
ExampleRows == <<[GPA |-> 36, Sch |-> 0], [GPA |-> 20, Sch |-> 500]>>

\* C6, as stated: a mask built from a tab's filter list and mode (the rows
\* of a rule tab's snapshot of the shared table, the highlights of a custom
\* or file tab, read before the user edits a cell by hand) marks a row under
\* "any" iff at least one of the tab's filters matches its cell and under
\* "all" iff every one of the tab's filters matches its cell.
C6_MaskMatchesEveryFilter ==
    \A i \in 1..Len(tabs) :
        /\ (tabs[i].kind = "rule" /\ edits = 0) =>
               \A r \in 1..Len(model_df.rows) :
                   (\E q \in 1..Len(tabs[i].data.rows) : tabs[i].data.rows[q] = model_df.rows[r])
                       <=> StatedMatch(model_df.rows[r], tabs[i].filters, tabs[i].mode)
        /\ (tabs[i].kind \in {"custom", "file"} /\ tabs[i].filters # <<>> /\ edits = 0) =>
               \A r \in 1..Len(tabs[i].data.rows) :
                   TabHighlights(i, r)
                       <=> StatedMatch(tabs[i].data.rows[r], tabs[i].filters, tabs[i].mode)

\* C6, amended: a mask built from a tab's filter list and mode (read before
\* the user edits a cell by hand) marks a row
\* iff, among the tab's filters on columns the table has, there is at
\* least one and, under "any", one of them matches the row's cell, under
\* "all", each of them does; so for GPA >= 3.5 and Scholarship > 0 the rows
\* {3.6, 0} and {2.0, 500} both match under "any" and neither under "all".
C6_MaskMatchesApplicable ==
    /\ \A i \in 1..Len(tabs) :
           /\ (tabs[i].kind = "rule" /\ edits = 0) =>
                  tabs[i].data = RowsMatching(model_df, tabs[i].filters, tabs[i].mode)
           /\ (tabs[i].kind \in {"custom", "file"} /\ edits = 0) =>
                  \A r \in 1..Len(tabs[i].data.rows) :
                      TabHighlights(i, r)
                          <=> MatchesFilterSet(tabs[i].data.rows[r], tabs[i].filters, tabs[i].mode)
    /\ \A r \in 1..2 :
           /\ row_matches_filters(ExampleRows[r], ExampleFilters, "any")
           /\ ~row_matches_filters(ExampleRows[r], ExampleFilters, "all")

\* C6, the example in the program: a rule tab with the two filters GPA >= 3.5
\* and Scholarship > 0 under "any" over the rows {3.6, 0} and {2.0, 500}
\* holds both rows.
C6_BothRowsUnderAny ==
    \E i \in 1..Len(tabs) :
        /\ tabs[i].kind = "rule"
        /\ tabs[i].mode = "any"
        /\ tabs[i].filters = ExampleFilters
        /\ edits = 0
        /\ Len(model_df.rows) = 2
        /\ \A r \in 1..2 : \A c \in {"GPA", "Sch"} : model_df.rows[r][c] = ExampleRows[r][c]
        /\ tabs[i].data.rows = model_df.rows

\* C7, as stated: no tab's filter list holds two structurally equal rules.
C7_NoDuplicateRules ==
    \A i \in 1..Len(tabs) :
        \A j, k \in 1..Len(tabs[i].filters) :
            j # k => ~RuleEq(tabs[i].filters[j], tabs[i].filters[k])

\* The tab configuration: the non-filtered tabs in their order, each with
\* its name, kind, filter list, combination mode and, for a file tab, path.
TabConfig ==
    SelectIdx([i \in 1..Len(tabs) |->
                   [name |-> tabs[i].name, kind |-> tabs[i].kind,
                    filters |-> tabs[i].filters, mode |-> tabs[i].mode,
                    path |-> IF tabs[i].kind = "file" THEN tabs[i].path ELSE None]],
              {i \in 1..Len(tabs) : tabs[i].kind # "filtered"}, 1)

\* C8, as stated: saving the state and starting the program again with the
\* same data file loaded gives back the same tab configuration, whatever
\* order the tabs were moved into.
C8_RestartKeepsTabConfig ==
    [][(Restart /\ ~IsEmpty(df) /\ last_file = current_file_path) => TabConfig' = TabConfig]_vars

\* C9: when the shared table and the incoming file differ in their sets of
\* non-timestamp columns, merge_dataframes reports failure, names exactly
\* the columns missing from and extra in the incoming table and returns
\* the existing table, and load_file shows the message and leaves the
\* shared table, the base model and the current file path as they were.
C9_MismatchLeavesAllUnchanged ==
    [][\A f \in DOMAIN Files :
          (LoadMore(f, "merge")
              /\ BaseColumns(df) # BaseColumns(load_dataframe_from_file(f))) =>
              /\ ~merge_dataframes(df, add_date_column(load_dataframe_from_file(f), clock')).ok
              /\ merge_dataframes(df, add_date_column(load_dataframe_from_file(f), clock')).df = df
              /\ dialog' = [title |-> "Column Mismatch",
                            missing |-> BaseColumns(df) \ BaseColumns(load_dataframe_from_file(f)),
                            extra |-> BaseColumns(load_dataframe_from_file(f)) \ BaseColumns(df)]
              /\ df' = df
              /\ model_df' = model_df
              /\ model_mask' = model_mask
              /\ model_fm' = model_fm
              /\ current_file_path' = current_file_path
      ]_vars

\* C9, the case: a merge has been refused because the incoming file lacks a
\* column of the shared table, and the shared table is still there.
C9_MergeRefused ==
    /\ dialog.title = "Column Mismatch"
    /\ dialog.missing = {"Sch"}
    /\ dialog.extra = {}
    /\ ~IsEmpty(df)
    /\ "Sch" \in df.cols

\* A row cut down to the non-timestamp columns, and these combinations over
\* a table.
KeyOf(row, base) == [c \in base |-> row[c]]
Keys(t) == {KeyOf(t.rows[i], BaseColumns(t)) : i \in 1..Len(t.rows)}

\* C10: when the sets of non-timestamp columns are equal, merge_dataframes
\* succeeds with a table that has exactly one row for each combination of
\* non-timestamp values of either table, and the row of a combination of
\* the incoming table is an incoming row with the incoming timestamp, that
\* of any other combination a row of the existing table.
C10_OneRowPerCombination ==
    (mg_out.done /\ BaseColumns(mg_existing) = BaseColumns(mg_new)) =>
        LET base == BaseColumns(mg_existing)
            out == mg_out.df.rows
        IN /\ mg_out.ok
           /\ {KeyOf(out[i], base) : i \in 1..Len(out)} = Keys(mg_existing) \cup Keys(mg_new)
           /\ \A i, j \in 1..Len(out) : i # j => KeyOf(out[i], base) # KeyOf(out[j], base)
           /\ \A i \in 1..Len(out) :
                  IF KeyOf(out[i], base) \in Keys(mg_new)
                  THEN /\ \E k \in 1..Len(mg_new.rows) : out[i] = mg_new.rows[k]
                       /\ out[i][DATE_COL_NAME] = 2
                  ELSE \E k \in 1..Len(mg_existing.rows) : out[i] = mg_existing.rows[k]

\* C10, the case: a combination occurs in both tables, with an older
\* timestamp in the existing one, and the merged table holds it once, with
\* the incoming timestamp.
C10_IncomingRowSurvives ==
    /\ mg_out.done
    /\ mg_out.ok
    /\ \E k \in Keys(mg_existing) \cap Keys(mg_new) :
           /\ \A i \in 1..Len(mg_existing.rows) : mg_existing.rows[i][DATE_COL_NAME] < 2
           /\ Cardinality({i \in 1..Len(mg_out.df.rows) :
                               KeyOf(mg_out.df.rows[i], BaseColumns(mg_existing)) = k}) = 1
           /\ \A i \in 1..Len(mg_out.df.rows) :
                  KeyOf(mg_out.df.rows[i], BaseColumns(mg_existing)) = k
                      => mg_out.df.rows[i][DATE_COL_NAME] = 2

\* A table without two rows that agree on all non-timestamp columns.
DupFree(t) ==
    \A i, j \in 1..Len(t.rows) :
        i # j => KeyOf(t.rows[i], BaseColumns(t)) # KeyOf(t.rows[j], BaseColumns(t))

\* C11: merging a table without duplicates on its non-timestamp columns
\* into itself returns the same rows in the same order, and merging what a
\* merge returned with the same incoming table again returns it unchanged.
C11_MergeIdempotent ==
    mg_again.done =>
        /\ (mg_again.self /\ DupFree(mg_existing)) => mg_again.first = mg_existing
        /\ mg_again.second = mg_again.first

\* C11, the case: a table of two different rows merged into itself, and a
\* merge that dropped an older row done again.
C11_SelfMergeOfTwoRows ==
    /\ mg_again.done
    /\ mg_again.self
    /\ DupFree(mg_existing)
    /\ Len(mg_existing.rows) = 2
    /\ mg_again.first.rows = mg_existing.rows
    /\ mg_again.second.rows = mg_existing.rows

\* The cell of the current tab's source table.
CurrentCell(row, col) == SourceDf(S0, current).rows[row][col]

\* C12: after a cell of a numeric column is edited with text that is no
\* number, the cell holds the text typed and not a missing value.
C12_RawInputStored ==
    [][\A row \in 1..Len(SourceDf(S0, current).rows) :
         \A col \in SourceDf(S0, current).cols \ {DATE_COL_NAME} :
            EditCell(row, col, "abc") => CurrentCell(row, col)' # NaN]_vars

\* What a load must leave alone when it fails.
LoadedState == <<df, model_df, model_mask, model_fm, tabs, current, current_file_path, last_file, state_file>>

\* C13: a load of a file that is missing, has an unsupported extension or
\* does not parse ends in the message box "Error Loading File" and leaves
\* the shared table, the base model, the tabs, the current file path, the
\* recorded last file and the saved state as they were, and writes no
\* archive.
C13_FailedLoadChangesNothing ==
    [][\A f \in Paths :
         (Raises(f) /\ (OpenFile(f) \/ \E action \in {"merge", "replace", "new_tab"} : LoadMore(f, action)))
             => /\ UNCHANGED LoadedState
                /\ ~archive_written'
                /\ dialog'.title = "Error Loading File"]_vars

\* C13, the case: a load has failed with a file loaded and a second tab
\* open.
C13_LoadFailedWithDataAndTabs ==
    /\ dialog.title = "Error Loading File"
    /\ ~IsEmpty(df)
    /\ Len(tabs) >= 2
    /\ current_file_path = last_file
    /\ current_file_path \in DOMAIN Files

\* The cell's display text contains the search text, letter case set aside.
CellContains(cell, text) == IsSubstring(lower(text), lower(display(cell)))

\* C14 (1): nothing is searched for, or some cell contains the text when no
\* column is chosen, or the chosen column's cell does.
SearchHolds ==
    \/ call.proxy.search_text = <<>>
    \/ /\ call.proxy.search_column = None
       /\ \E c \in call.model.cols : CellContains(call.model.rows[call.source_row][c], call.proxy.search_text)
    \/ /\ call.proxy.search_column \in call.model.cols
       /\ CellContains(call.model.rows[call.source_row][call.proxy.search_column], call.proxy.search_text)

\* C14 (2): the gate rejects the row only when the model has active
\* filters, the mode is "highlighted" or "unhighlighted" and the row's
\* status disagrees with it.
GateRejects ==
    /\ call.model.has_filters
    /\ \/ call.proxy.filter_mode = "highlighted" /\ ~call.model.highlighted[call.source_row]
       \/ call.proxy.filter_mode = "unhighlighted" /\ call.model.highlighted[call.source_row]

\* The extra filters whose column the table has, and whether one matches
\* the row's raw value.
PresentExtra == {k \in 1..Len(call.proxy.extra_filters) : call.proxy.extra_filters[k].column \in call.model.cols}
ExtraMatches(k) ==
    rule_matches(call.proxy.extra_filters[k],
                 call.model.rows[call.source_row][call.proxy.extra_filters[k].column])

\* C15, the extra-filter step as stated: without extra filters the row
\* passes; under "any" the rules on absent columns are skipped and one of
\* the others must match; under "all" a rule on an absent column fails the
\* row and every rule must match.
ExtraHolds ==
    \/ call.proxy.extra_filters = <<>>
    \/ /\ call.proxy.extra_filter_mode = "any"
       /\ \E k \in PresentExtra : ExtraMatches(k)
    \/ /\ call.proxy.extra_filter_mode = "all"
       /\ PresentExtra = 1..Len(call.proxy.extra_filters)
       /\ \A k \in PresentExtra : ExtraMatches(k)

\* C14: filterAcceptsRow accepts a row exactly when the search holds, the
\* highlight gate does not reject it and the extra filters pass.
C14_AcceptsIffAllThreeHold ==
    ret # NoCallYet => (ret.value <=> (SearchHolds /\ ~GateRejects /\ ExtraHolds))

\* C14, the case: a row the search and the extra filters let through is
\* rejected by the gate alone, and a row found by a search in capitals is
\* accepted.
C14_RejectedByGateAlone ==
    /\ ret # NoCallYet
    /\ ~ret.value
    /\ call.proxy.search_text = <<"A", "L">>
    /\ call.proxy.search_column = None
    /\ SearchHolds
    /\ call.proxy.extra_filters # <<>>
    /\ ExtraHolds
    /\ GateRejects

\* C15: with nothing searched for and the filter mode "all", the proxy
\* accepts a row exactly when the extra-filter step as stated passes.
C15_AbsentColumnSkippedOrFails ==
    (ret # NoCallYet /\ call.proxy.search_text = <<>> /\ call.proxy.filter_mode = "all")
        => (ret.value <=> ExtraHolds)

\* C15, the case: of two rules, one on a column the table lacks and one
\* that matches, the row is accepted under "any".
C15_AbsentSkippedUnderAny ==
    /\ ret # NoCallYet
    /\ call.proxy.search_text = <<>> /\ call.proxy.filter_mode = "all"
    /\ call.proxy.extra_filter_mode = "any"
    /\ PresentExtra # {} /\ PresentExtra # 1..Len(call.proxy.extra_filters)
    /\ ret.value

\* matches of a rule of the given variant has returned.
Matched(type) == ret # NoCallYet /\ call.fn = "matches" /\ call.rule.type = type

\* x op v, as the comparison of two numbers.
Compares(x, op, v) ==
    \/ op = ">=" /\ x >= v
    \/ op = "<=" /\ x <= v
    \/ op = "==" /\ x = v
    \/ op = ">" /\ x > v
    \/ op = "<" /\ x < v
    \/ op = "!=" /\ x # v

\* The objects float() does not coerce: a str that is no number, None, a
\* date.
NotCoercible(value) ==
    \/ value.kind \in {"none", "date"}
    \/ value.kind = "text" /\ ~IsDigits(strip(value.s))

\* C16: NumericFilter(op, v).matches(x) is the comparison x op v when x is a
\* number, is false under every operator when x cannot be coerced to a
\* number, and never raises.
C16_NumericMatchesIsComparison ==
    Matched("numeric") =>
        /\ ret.outcome \in {"True", "False"}
        /\ call.value.kind = "num" =>
              (ret.outcome = "True" <=> Compares(call.value.n, call.rule.operator, call.rule.value))
        /\ NotCoercible(call.value) => ret.outcome = "False"

\* C16, the case: a str that is no number does not match under "!=".
C16_TextIsNoMatchUnderNotEqual ==
    /\ Matched("numeric")
    /\ call.rule.operator = "!="
    /\ call.value = Text(<<"a">>)
    /\ ret.outcome = "False"

\* The text as the filter's case policy compares it.
Folded(s) == IF call.rule.case_sensitive THEN s ELSE lower(s)

\* C17 as stated: TextFilter(tokens, case_sensitive).matches(t) is true
\* exactly when one of the tokens given is a substring of t, letter case
\* set aside unless the filter is case-sensitive.
C17_MatchesIffGivenTokenInText ==
    Matched("text") =>
        (ret.outcome = "True"
            <=> \E k \in 1..Len(call.given) : IsSubstring(Folded(call.given[k]), Folded(call.value.s)))

\* C17: matches(t) is true exactly when one of the tokens given, with the
\* blanks at its ends cut off, is not empty and is a substring of t, letter
\* case set aside unless the filter is case-sensitive.
C17_MatchesIffStrippedTokenInText ==
    Matched("text") =>
        (ret.outcome = "True"
            <=> \E k \in 1..Len(call.given) :
                    /\ strip(call.given[k]) # <<>>
                    /\ IsSubstring(Folded(strip(call.given[k])), Folded(call.value.s)))

\* C17, the case: a token given with a blank before it matches a text
\* without that blank, and an empty token next to it matches nothing.
C17_TokenWithBlankMatches ==
    /\ Matched("text")
    /\ call.given = <<<<>>, <<" ", "a">>>>
    /\ call.value = Text(<<"b", "a">>)
    /\ ret.outcome = "True"

\* d1 <= d2 of two dates.
DateLeq(d1, d2) == d1 = d2 \/ DateLess(d1, d2)

\* C18: DateFilter(start, end).matches(d) is true exactly when d is a date
\* with start <= d where there is a start and d <= end where there is an
\* end; a value that is no date and does not read as one never matches,
\* and matches does not raise.
C18_DateMatchesIffInRange ==
    Matched("date") =>
        /\ call.value.kind = "date" =>
              (ret.outcome = "True"
                  <=> /\ call.rule.start_date.some => DateLeq(call.rule.start_date.date, call.value.date)
                      /\ call.rule.end_date.some => DateLeq(call.value.date, call.rule.end_date.date))
        /\ (call.value.kind \in {"nat", "nan", "none"}
               \/ (call.value.kind = "text" /\ ~IsIsoDate(call.value.s)))
              => ret.outcome = "False"

\* C19: for a rule of each variant, from_dict of its to_dict is equal to it
\* (by __eq__), and serialising that again gives the same dict.
C19_RoundTripGivesEqualRule ==
    (ret # NoCallYet /\ call.fn = "round_trip") =>
        /\ RuleEq(ret.rule, call.rule)
        /\ ret.again = ret.dict

\* C19, the case: a date rule with one bound, whose month and day differ,
\* has gone through its dict.
C19_DateRuleRoundTripped ==
    /\ ret # NoCallYet
    /\ call.fn = "round_trip"
    /\ call.rule = DateFilter("Date", Some(D1), NoDate)
    /\ ret.dict.start_date.iso = <<"2", "0", "2", "4", "-", "0", "1", "-", "0", "5">>
    /\ ret.rule = call.rule

\* C20: two rules that are equal have the same hash, and rules of
\* different variants are not equal.
C20_EqualRulesHashEqual ==
    (ret # NoCallYet /\ call.fn = "compare") =>
        /\ ret.eq => ret.hash_a = ret.hash_b
        /\ call.a.type # call.b.type => ~ret.eq

\* The rule is in the bucket of its column.
Stored(filters, rule) == RuleIn(rule, get_filters_for_column(filters, rule.column))

\* Every observer of the list has been called once with the event, and
\* nobody else.
EachCalledOnce(events, observers, event) ==
    /\ Len(events) = Len(observers)
    /\ \A k \in 1..Len(events) : events[k].event = event
    /\ \A k \in 1..Len(observers) :
           Cardinality({j \in 1..Len(events) : events[j].observer = observers[k]}) = 1

\* C21: add_filter stores the rule and notifies 'filter_added' once when no
\* equal rule is in the column's bucket, and otherwise changes nothing and
\* notifies nobody; remove_filter removes the rule and notifies
\* 'filter_removed' once when the rule is present, and otherwise changes
\* nothing and notifies nobody.
C21_NotifiesOnceOrNoOp ==
    [][\A rule \in FMRules :
        /\ FmAddFilter(rule) =>
              IF Stored(fm_filters, rule)
              THEN fm_filters' = fm_filters /\ fm_call'.events = <<>>
              ELSE /\ Stored(fm_filters', rule)
                   /\ EachCalledOnce(fm_call'.events, fm_observers, "filter_added")
        /\ FmRemoveFilter(rule) =>
              IF Stored(fm_filters, rule)
              THEN /\ ~Stored(fm_filters', rule)
                   /\ EachCalledOnce(fm_call'.events, fm_observers, "filter_removed")
              ELSE fm_filters' = fm_filters /\ fm_call'.events = <<>>]_vars

\* C21, the case: with observers registered, a rule already in its bucket
\* has been added again and nobody was notified.
C21_DuplicateAddIsSilent ==
    /\ fm_call.op = "add_filter"
    /\ fm_call.stored
    /\ fm_observers # <<>>
    /\ fm_call.events = <<>>
    /\ Len(get_filters_for_column(fm_filters, fm_call.rule.column)) = 2

\* C22: whatever add_filter, remove_filter, clear_column_filters and
\* clear_all have been called, no column maps to an empty list and no
\* bucket holds two equal rules, so has_filters() is true exactly when
\* get_all_filters() is not empty.
C22_NoEmptyBucketNoDuplicate ==
    /\ \A i \in 1..Len(fm_filters) : fm_filters[i].rules # <<>>
    /\ \A i \in 1..Len(fm_filters) :
           \A j, k \in 1..Len(fm_filters[i].rules) :
               RuleEq(fm_filters[i].rules[j], fm_filters[i].rules[k]) => j = k
    /\ has_filters(fm_filters) <=> get_all_filters(fm_filters) # <<>>

\* C22, the case: remove_filter has taken the last rule of a column while
\* another column keeps its rules.
C22_LastRuleOfColumnRemoved ==
    /\ fm_call.op = "remove_filter"
    /\ fm_call.stored
    /\ ~HasBucket(fm_filters, fm_call.rule.column)
    /\ has_filters(fm_filters)

\* The columns with active rules that the row of the last call lacks.
AbsentColumns == {c \in ActiveColumns(fm_filters) : c \notin DOMAIN fm_call.row}

\* C23: a column with active rules that the row lacks counts as no match:
\* matches_all_filters is false for the row, and matches_any_filter is true
\* exactly when a rule on a column the row has matches.
C23_AbsentColumnIsNoMatch ==
    /\ (fm_call.op = "matches_all_filters" /\ AbsentColumns # {}) => ~fm_call.result
    /\ fm_call.op = "matches_any_filter" =>
           (fm_call.result <=>
               \E c \in ActiveColumns(fm_filters) \cap DOMAIN fm_call.row :
                   \E r \in RulesOn(fm_filters, c) : Matches(r, fm_call.row[c]))

\* C23, the case: the first column of the manager is absent from the row,
\* and matches_any_filter has found a rule of a later column that matches.
C23_AnySkipsAbsentColumn ==
    /\ fm_call.op = "matches_any_filter"
    /\ fm_call.result
    /\ fm_filters[1].column \in AbsentColumns

\* The last call was a mutation that notifies: an add_filter that stored
\* its rule, a remove_filter or clear_column_filters that found something
\* to take out, or a clear_all.
NotifyingCall ==
    \/ fm_call.op = "add_filter" /\ ~fm_call.stored
    \/ fm_call.op \in {"remove_filter", "clear_column_filters"} /\ fm_call.stored
    \/ fm_call.op = "clear_all"

\* C27: a mutation that notifies has called every registered observer once,
\* in the order of registration, whether or not one of them raised, and
\* what it did to the filters stands; no callback is registered twice.
C27_EveryObserverOnceInOrder ==
    /\ NotifyingCall =>
           /\ Len(fm_call.events) = Len(fm_observers)
           /\ \A k \in 1..Len(fm_observers) : fm_call.events[k].observer = fm_observers[k]
           /\ fm_call.op = "add_filter" => Stored(fm_filters, fm_call.rule)
           /\ fm_call.op = "remove_filter" => ~Stored(fm_filters, fm_call.rule)
           /\ fm_call.op = "clear_all" => fm_filters = <<>>
    /\ \A j, k \in 1..Len(fm_observers) : fm_observers[j] = fm_observers[k] => j = k

\* C27, the case: the first of three observers raised on 'filter_added',
\* the two after it were called all the same, and the rule is stored.
C27_LaterObserversCalledAfterRaise ==
    /\ fm_call.op = "add_filter"
    /\ ~fm_call.stored
    /\ Len(fm_observers) = 3
    /\ fm_call.events[1].raised
    /\ fm_call.events[3].observer = fm_observers[3]
    /\ Stored(fm_filters, fm_call.rule)

\* No rule tab of the list has an empty filter list.
NoEmptyRuleTab(list) == \A i \in 1..Len(list) : list[i].kind = "rule" => list[i].filters # <<>>

\* A filter is removed through the panel, the filters of a column are
\* cleared, or all of them are.
RemovalStep ==
    \/ \E rule \in Rules : RemoveFilter(rule)
    \/ \E column \in {"GPA", "Sch"} : ClearColumn(column)
    \/ ClearAllFilters

\* C24: a removal that takes the last filter of a rule tab destroys the
\* tab: when no rule tab was without filters before remove-filter,
\* clear-filters-for-column or clear-all, none is afterwards, wherever the
\* tab stands and whether it is shown or hidden.
C24_EmptiedRuleTabIsDestroyed ==
    [][(RemovalStep /\ NoEmptyRuleTab(tabs)) => NoEmptyRuleTab(tabs')]_vars

\* C25: in every state the filtered tab's own filter list is empty and its
\* proxy has no extra filters.
C25_FilteredTabCarriesNoFilters ==
    \A i \in 1..Len(tabs) :
        tabs[i].kind = "filtered" => (tabs[i].filters = <<>> /\ tabs[i].extra = <<>>)

\* C25, the case: the filtered tab is the current one and shows rows, while
\* a rule tab carries two filters that were added to it.
C25_FilteredTabCurrentBesideRules ==
    /\ tabs[current].kind = "filtered"
    /\ tabs[current].data.rows # <<>>
    /\ tabs[current].filters = <<>>
    /\ \E j \in 1..Len(tabs) : tabs[j].kind = "rule" /\ Len(tabs[j].filters) = 2

\* The tables of the custom tabs, in the order of the tabs.
SnapshotsOf(list) ==
    LET custom == SelectSeq(list, LAMBDA tab : tab.kind = "custom")
    IN [k \in 1..Len(custom) |-> custom[k].data]

\* A cell of the shared table is edited, a file is loaded on top of it
\* (merged, replacing it, or beside it), or rows are moved out of it.
SharedTableStep ==
    \/ tabs[current].kind = "base"
          /\ \E row \in 1..4, col \in {"GPA", "Sch"}, text \in EditTexts : EditCell(row, col, text)
    \/ \E f \in Paths, action \in {"merge", "replace", "new_tab"} : LoadMore(f, action)
    \/ MoveHighlighted

\* A cell of a custom tab is edited.
SnapshotEditStep ==
    /\ tabs[current].kind = "custom"
    /\ \E row \in 1..4, col \in {"GPA", "Sch"}, text \in EditTexts : EditCell(row, col, text)

\* C26: a custom or duplicate tab holds an independent snapshot: editing a
\* cell of the shared table, loading a file on top of it and moving rows
\* out of it leave the rows of every snapshot as they were, and editing a
\* cell of a snapshot leaves the shared table as it was.
C26_SnapshotIsIndependent ==
    [][/\ SharedTableStep => SnapshotsOf(tabs') = SnapshotsOf(tabs)
       /\ SnapshotEditStep => (model_df' = model_df /\ df' = df)]_vars

\* C26, the case: after the one file loaded, rows were moved out of the
\* shared table, and a custom tab still holds the rows it was created with.
C26_SnapshotOutlivesMove ==
    /\ \E i \in 1..Len(tabs) :
           /\ tabs[i].kind = "custom"
           /\ Len(tabs[i].data.rows) > Len(model_df.rows)
    /\ df = model_df
    /\ ~IsEmpty(model_df)
    /\ clock = 1

\* C28: in every state MainWindow.df and the table of the base model hold
\* the same rows and values.
C28_DfEqualsBaseModelTable == df = model_df

\* The rows of the tab at position i that its model's highlight mask marks.
MaskedRows(i) ==
    IF tabs[i].hmask.none THEN {}
    ELSE {r \in 1..Len(tabs[i].data.rows) : tabs[i].hmask.bits[r]}

\* C29: in a custom or file tab with filters and nothing searched for, the
\* rows the tab's proxy shows are the rows the highlight mask of the tab's
\* model marks, in both modes and also when a filter names a column the
\* tab's table lacks.
C29_ProxyRowsAreMaskedRows ==
    \A i \in 1..Len(tabs) :
        (tabs[i].kind \in {"custom", "file"} /\ tabs[i].filters # <<>>)
            => VisibleRows(S0, i) = MaskedRows(i)

\* The search column a tab's proxy is to have for the chosen scope: none
\* for the global scope and for a column the tab's table lacks.
ScopeFor(view) ==
    IF call.item.data = "Global" \/ call.item.data \notin view.cols THEN None ELSE call.item.data

\* C30: when the text or the scope of the search bar changes, the handler
\* completes without error, and every tab's proxy then has the bar's text
\* as search text and the chosen scope as search column.
C30_SearchReachesEveryProxy ==
    (ret # NoCallYet /\ ret.fn = "_on_modern_search_changed") =>
        /\ ~ret.raised
        /\ \A k \in 1..Len(ret.views) :
               /\ ret.views[k].proxy.search_text = strip(call.text)
               /\ ret.views[k].proxy.search_column = ScopeFor(ret.views[k])

====
